---- MODULE Spec2Model ----
(***************************************************************************)
(* Radio-Times-Web: the live metadata discovery of                         *)
(* src/src/utils/metadataFetcher.js (cleanMetadata, the four protocol      *)
(* probes, getBaseUrl, fetchLiveMetadata), and its callers: the state of   *)
(* RadioProvider (src/src/main.jsx), the sleep timer menu of Header and    *)
(* the handlers and effects of AudioPlayer (src/src/components).           *)
(*                                                                         *)
(* A JavaScript string is a sequence of UTF-16 code units (integers); a    *)
(* JavaScript value is a tagged record (Undefined, Null, Str, Num, ...);   *)
(* an operator that can throw returns Throw instead of a value.            *)
(***************************************************************************)
EXTENDS Integers, Sequences, FiniteSets, TLC

VARIABLES
    streamUrl,    \* the argument of the fetchLiveMetadata call
    pc,           \* the call: "idle", "awaiting", "returned", "rejected"
    base,         \* getBaseUrl(streamUrl); Undefined while not derived
    preq,         \* per strategy: the URL its probe has requested, or Undefined
    presult,      \* per strategy: the probe's promise ("none", "pending", settled)
    ret,          \* the value the call returned; Undefined before that
    firstContent, \* history: the first strategy whose probe settled with content, or 0
    text,         \* sanitizer harness: the argument handed to cleanMetadata
    cleaned,      \* sanitizer harness: cleanMetadata(text)
    recleaned,    \* sanitizer harness: cleanMetadata(cleaned)
    cstep,        \* sanitizer harness: "off", "in", "once", "twice"
    htype,        \* probe harness: per probe, its type
    hanswer,      \* probe harness: per probe, the canned answer it got, with its kind
    hresult,      \* probe harness: per probe, its promise
    calls,        \* concurrent calls: per call, its argument, position and locals
    world,        \* concurrent calls: the requests the servers answer with a title
    currentStation,     \* RadioProvider: the station in the player, or null
    isPlaying,          \* RadioProvider: playback is on
    sleepTimer,         \* RadioProvider: seconds left on the sleep timer, or null
    recentStations,     \* RadioProvider: the list of recently started stations
    favorites,          \* RadioProvider: the list of favorite stations
    selectedCountry,    \* RadioProvider: the selected country code, or null
    stations,           \* RadioProvider: the station list on display
    isLoading,          \* RadioProvider: the station loading flag
    requests,           \* the loadStations calls awaiting their response, oldest first
    allCountries,       \* RadioProvider: the country list
    isCountriesLoading, \* RadioProvider: the country loading flag
    storage,            \* localStorage: the country cache and its timestamp
    now,                \* Date.now() at the time loadCountries runs
    cpc,                \* loadCountries: "off", "unmounted", "cached", "awaiting", "done"
    mounted,            \* AudioPlayer is part of the tree
    error,              \* AudioPlayer: the playback error message, or null
    useProxy,           \* AudioPlayer: the proxy flag
    liveSong,           \* AudioPlayer: the title on display, or null
    isSyncing,          \* AudioPlayer: the sync indicator
    syncs,              \* the handleSyncMetadata calls awaiting fetchLiveMetadata, oldest first
    hist                \* history: what was started, toggled and set so far

resolveVars == <<streamUrl, pc, base, preq, presult, ret, firstContent>>
cleanVars == <<text, cleaned, recleaned, cstep>>
harnessVars == <<htype, hanswer, hresult>>
pairVars == <<calls, world>>
coreVars == <<resolveVars, cleanVars, harnessVars, pairVars>>
playVars == <<currentStation, isPlaying, sleepTimer, recentStations, favorites>>
loadVars == <<selectedCountry, stations, isLoading, requests>>
countryVars == <<allCountries, isCountriesLoading, storage, now, cpc>>
playerVars == <<mounted, error, useProxy, liveSong, isSyncing, syncs>>
appVars == <<playVars, loadVars, countryVars, playerVars, hist>>
vars == <<coreVars, appVars>>

----------------------------------------------------------------------------
\* JavaScript values

Undefined == [t |-> "undefined"]
Null == [t |-> "null"]
Throw == [t |-> "throw"]
Str(s) == [t |-> "str", v |-> s]
Num(n) == [t |-> "num", v |-> n]

Bool(b) == [t |-> "bool", v |-> b]
Arr(a) == [t |-> "arr", v |-> a]       \* a: a sequence of values
Obj(f) == [t |-> "obj", v |-> f]       \* f: a function from property names to values

IsStr(x) == x.t = "str"
IsArr(x) == x.t = "arr"
IsThrow(x) == x.t = "throw"
Nullish(x) == x.t \in {"undefined", "null"}

\* ToBoolean: undefined, null, "", 0 are falsy.
Truthy(x) ==
    CASE x.t = "undefined" -> FALSE
      [] x.t = "null" -> FALSE
      [] x.t = "str" -> x.v # <<>>
      [] x.t = "num" -> x.v # 0
      [] x.t = "bool" -> x.v
      [] OTHER -> TRUE

\* x.k for a property name k: a TypeError on undefined and null, the property
\* of an object, undefined on everything else (no value the probes read has a
\* title, songtitle, icestats, source or streams property of its own).
Get(x, k) ==
    IF Nullish(x) THEN Throw
    ELSE IF x.t = "obj" THEN (IF k \in DOMAIN x.v THEN x.v[k] ELSE Undefined)
    ELSE Undefined

\* x[0]
GetFirst(x) ==
    IF Nullish(x) THEN Throw
    ELSE IF x.t = "arr" THEN (IF Len(x.v) >= 1 THEN x.v[1] ELSE Undefined)
    ELSE IF x.t = "str" THEN (IF Len(x.v) >= 1 THEN Str(<<x.v[1]>>) ELSE Undefined)
    ELSE IF x.t = "obj" THEN (IF "0" \in DOMAIN x.v THEN x.v["0"] ELSE Undefined)
    ELSE Undefined

----------------------------------------------------------------------------
\* cleanMetadata (metadataFetcher.js 13-20)

LT == 60         \* '<'
GT == 62         \* '>'
MaxMetadataLen == 100

\* [\x00-\x1F\x7F-\x9F]
IsControl(c) == c \in 0..31 \/ c \in 127..159

\* WhiteSpace and LineTerminator code units, as String.prototype.trim strips
IsWhiteSpace(c) ==
    \/ c \in {9, 10, 11, 12, 13, 32, 160, 5760, 8232, 8233, 8239, 8287, 12288, 65279}
    \/ c \in 8192..8202

\* s.replace(/<[^>]*>?/gm, ''), from index i on: the next match starts at the
\* next '<' and runs through the first '>' after it, or to the end of the
\* string when no '>' follows; the text before the match is kept.
RECURSIVE StripFrom(_, _)
StripFrom(s, i) ==
    LET lts == {j \in i..Len(s) : s[j] = LT}
    IN  IF lts = {} THEN SubSeq(s, i, Len(s))
        ELSE LET open == CHOOSE j \in lts : \A k \in lts : j <= k
                 gts == {j \in (open + 1)..Len(s) : s[j] = GT}
             IN  IF gts = {} THEN SubSeq(s, i, open - 1)
                 ELSE LET close == CHOOSE j \in gts : \A k \in gts : j <= k
                      IN  SubSeq(s, i, open - 1) \o StripFrom(s, close + 1)

StripTags(s) == StripFrom(s, 1)

\* s.replace(/[\x00-\x1F\x7F-\x9F]/g, '')
NotControl(c) == ~IsControl(c)
StripControl(s) == SelectSeq(s, NotControl)

\* s.trim()
Trim(s) ==
    LET keep == {i \in 1..Len(s) : ~IsWhiteSpace(s[i])}
    IN  IF keep = {} THEN <<>>
        ELSE LET lo == CHOOSE i \in keep : \A j \in keep : i <= j
                 hi == CHOOSE i \in keep : \A j \in keep : j <= i
             IN  SubSeq(s, lo, hi)

\* A cut one code unit short.
SubstringShort(s, n) == SubSeq(s, 1, IF Len(s) < n - 1 THEN Len(s) ELSE n - 1)

\* s.substring(0, n)
Substring0(s, n) == SubSeq(s, 1, IF Len(s) < n THEN Len(s) ELSE n)

\* The cleaning without the cut to MaxMetadataLen.
CleanNoLimit(s) == Trim(StripControl(StripTags(s)))

\* The cleaned text of a string (lines 16-18).
CleanString(s) == Substring0(Trim(StripControl(StripTags(s))), MaxMetadataLen)

\* cleanMetadata(text): '' for a falsy argument; a truthy argument that is no
\* string has no replace method, so the call throws a TypeError.
cleanMetadata(x) ==
    IF ~Truthy(x) THEN Str(<<>>)
    ELSE IF IsStr(x) THEN Str(CleanString(x.v))
    ELSE Throw

----------------------------------------------------------------------------
\* The four protocol probes (metadataFetcher.js 25-101).  A probe is given
\* what the network answers to its request: NetworkError when fetch rejects,
\* or an HTTP response with its status and with body, the completion of the
\* read the probe makes (response.text() or response.json()): a value, or
\* Throw when the read fails or the text is no JSON.

NetworkError == [kind |-> "neterr"]
Http(status, body) == [kind |-> "http", status |-> status, body |-> body]

\* response.ok
ResponseOk(resp) == resp.status \in 200..299

\* The settled promise of an async function whose body completes with x.
AsyncResult(x) ==
    IF IsThrow(x) THEN [status |-> "rejected"]
    ELSE [status |-> "fulfilled", value |-> x]

\* A probe without its catch block: an exception leaves the probe.
CatchNothing(x) == x

\* catch (e) { return null; }
CatchNull(x) == IF IsThrow(x) THEN Null ELSE x

SetMin(S) == CHOOSE x \in S : \A y \in S : x <= y
SetMax(S) == CHOOSE x \in S : \A y \in S : y <= x

\* What '.' does not match.
IsLineTerminator(c) == c \in {10, 13, 8232, 8233}

\* The line around index i: its first and last index.
LineLo(s, i) == 1 + SetMax({0} \cup {j \in 1..(i - 1) : IsLineTerminator(s[j])})
LineHi(s, i) == SetMin({Len(s) + 1} \cup {j \in (i + 1)..Len(s) : IsLineTerminator(s[j])}) - 1

NoMatch == [found |-> FALSE]
Matched(g) == [found |-> TRUE, group |-> g]

\* text.match(/.*,.*,.*,.*,.*,.*,(.*)/): the leftmost match lies in the
\* first line that holds six commas (44); every .* is greedy, so the first
\* five take all they can and the group is what follows the line's last comma.
MatchShoutcastV1(s) ==
    LET commas == {i \in 1..Len(s) : s[i] = 44}
        InLine(c) == {d \in commas : LineLo(s, c) <= d /\ d <= LineHi(s, c)}
        good == {c \in commas : Cardinality(InLine(c)) >= 6}
    IN  IF good = {} THEN NoMatch
        ELSE LET c0 == SetMin(good)
                 last == SetMax(InLine(c0))
             IN  Matched(SubSeq(s, last + 1, LineHi(s, c0)))

ShoutcastV1Try(resp) ==
    IF resp.kind = "neterr" THEN Throw
    ELSE IF ~ResponseOk(resp) THEN Null
    ELSE IF IsThrow(resp.body) THEN Throw
    ELSE LET match == MatchShoutcastV1(resp.body.v)
         IN  IF match.found THEN cleanMetadata(Str(match.group)) ELSE Null

fetchShoutcastV1(resp) == AsyncResult(CatchNull(ShoutcastV1Try(resp)))

\* A scan that looks at the first source only.
IcecastFirstOnly(sources) ==
    IF sources = <<>> THEN Null
    ELSE IF Nullish(sources[1]) THEN Throw
    ELSE IF Truthy(Get(sources[1], "title")) THEN cleanMetadata(Get(sources[1], "title"))
    ELSE Null

\* The first source, in list order, that stops the loop of lines 57-59: reading
\* .title of a null or undefined element throws, a truthy title is returned
\* cleaned.
IcecastSources(sources) ==
    LET stops == {i \in 1..Len(sources) :
                     Nullish(sources[i]) \/ Truthy(Get(sources[i], "title"))}
    IN  IF stops = {} THEN Null
        ELSE LET i == SetMin(stops)
             IN  IF Nullish(sources[i]) THEN Throw
                 ELSE cleanMetadata(Get(sources[i], "title"))

IcecastJsonTry(resp) ==
    IF resp.kind = "neterr" THEN Throw
    ELSE IF ~ResponseOk(resp) THEN Null
    ELSE IF IsThrow(resp.body) THEN Throw
    ELSE LET data == resp.body
         IN  IF /\ Truthy(data)
                /\ Truthy(Get(data, "icestats"))
                /\ Truthy(Get(Get(data, "icestats"), "source"))
             THEN LET source == Get(Get(data, "icestats"), "source")
                  IN  IcecastSources(IF IsArr(source) THEN source.v ELSE <<source>>)
             ELSE Null

fetchIcecastJson(resp) == AsyncResult(CatchNull(IcecastJsonTry(resp)))

\* A probe that reads the top-level songtitle and never the streams.
ShoutcastV2TopOnly(resp) ==
    IF resp.kind = "neterr" THEN Throw
    ELSE IF ~ResponseOk(resp) THEN Null
    ELSE IF IsThrow(resp.body) THEN Throw
    ELSE LET data == resp.body
         IN  IF Truthy(data) /\ Truthy(Get(data, "songtitle"))
             THEN cleanMetadata(Get(data, "songtitle"))
             ELSE Null

ShoutcastV2Try(resp) ==
    IF resp.kind = "neterr" THEN Throw
    ELSE IF ~ResponseOk(resp) THEN Null
    ELSE IF IsThrow(resp.body) THEN Throw
    ELSE LET data == resp.body
         IN  IF Truthy(data) /\ Truthy(Get(data, "songtitle"))
             THEN cleanMetadata(Get(data, "songtitle"))
             ELSE IF /\ Truthy(data)
                     /\ Truthy(Get(data, "streams"))
                     /\ Truthy(GetFirst(Get(data, "streams")))
                     /\ Truthy(Get(GetFirst(Get(data, "streams")), "songtitle"))
             THEN cleanMetadata(Get(GetFirst(Get(data, "streams")), "songtitle"))
             ELSE Null

fetchShoutcastV2(resp) == AsyncResult(CatchNull(ShoutcastV2Try(resp)))

ToLower(c) == IF c \in 65..90 THEN c + 32 ELSE c

\* lit, in lower case, at index p of s, whatever the case of s (the i flag)
MatchesAt(s, p, lit) ==
    /\ p + Len(lit) - 1 <= Len(s)
    /\ \A k \in 1..Len(lit) : ToLower(s[p + k - 1]) = lit[k]

\* current song:</td><td class="streamdata">
CurrentSongCell ==
    <<99, 117, 114, 114, 101, 110, 116, 32, 115, 111, 110, 103, 58, 60, 47, 116,
      100, 62, 60, 116, 100, 32, 99, 108, 97, 115, 115, 61, 34, 115, 116, 114,
      101, 97, 109, 100, 97, 116, 97, 34, 62>>
\* </td>
CellEnd == <<60, 47, 116, 100, 62>>

\* text.match(/Current Song:<\/td><td class="streamdata">(.*?)<\/td>/i): the
\* leftmost occurrence of the label cell that a </td> follows on the same line;
\* the lazy group ends at the first such </td>.
MatchIcecastRaw(s) ==
    LET from(p) == p + Len(CurrentSongCell)
        Ends(p) == {q \in from(p)..Len(s) :
                       /\ MatchesAt(s, q, CellEnd)
                       /\ \A k \in from(p)..(q - 1) : ~IsLineTerminator(s[k])}
        starts == {p \in 1..Len(s) : MatchesAt(s, p, CurrentSongCell) /\ Ends(p) # {}}
    IN  IF starts = {} THEN NoMatch
        ELSE LET p0 == SetMin(starts)
             IN  Matched(SubSeq(s, from(p0), SetMin(Ends(p0)) - 1))

IcecastRawTry(resp) ==
    IF resp.kind = "neterr" THEN Throw
    ELSE IF ~ResponseOk(resp) THEN Null
    ELSE IF IsThrow(resp.body) THEN Throw
    ELSE LET match == MatchIcecastRaw(resp.body.v)
         IN  IF match.found THEN cleanMetadata(Str(match.group)) ELSE Null

fetchIcecastRaw(resp) == AsyncResult(CatchNull(IcecastRawTry(resp)))

ProbeTypes == {"ShoutcastV1", "ShoutcastV2", "IcecastJSON", "IcecastRaw"}

\* The probe of a type, on the answer to its request.
RunProbe(type, resp) ==
    CASE type = "ShoutcastV1" -> fetchShoutcastV1(resp)
      [] type = "ShoutcastV2" -> fetchShoutcastV2(resp)
      [] type = "IcecastJSON" -> fetchIcecastJson(resp)
      [] type = "IcecastRaw" -> fetchIcecastRaw(resp)

----------------------------------------------------------------------------
\* getBaseUrl (metadataFetcher.js 107-128)

Lower(s) == [i \in 1..Len(s) |-> ToLower(s[i])]
IsAlpha(c) == ToLower(c) \in 97..122
IsDigit(c) == c \in 48..57
IsSchemeChar(c) == IsAlpha(c) \/ IsDigit(c) \/ c \in {43, 45, 46}

\* The first index from `from` on that holds a code unit of S; Len(s) + 1 when
\* there is none.
FirstIn(s, S, from) == SetMin({Len(s) + 1} \cup {i \in from..Len(s) : s[i] \in S})

\* s.includes(lit)
Includes(s, lit) ==
    \E p \in 1..(Len(s) + 1) :
        /\ p + Len(lit) - 1 <= Len(s)
        /\ \A k \in 1..Len(lit) : s[p + k - 1] = lit[k]

\* s.split(c): the pieces between the occurrences of the code unit c
RECURSIVE SplitFrom(_, _, _)
SplitFrom(s, c, from) ==
    LET cut == FirstIn(s, {c}, from)
    IN  IF cut > Len(s) THEN <<SubSeq(s, from, Len(s))>>
        ELSE <<SubSeq(s, from, cut - 1)>> \o SplitFrom(s, c, cut + 1)

Split(s, c) == SplitFrom(s, c, 1)

\* http, https, ws, wss, ftp: the schemes whose URLs always have a host
SpecialSchemes ==
    {<<104, 116, 116, 112>>, <<104, 116, 116, 112, 115>>, <<119, 115>>,
     <<119, 115, 115>>, <<102, 116, 112>>}

\* The port a scheme leaves out of url.host: 80, 443, 80, 443, 21
DefaultPort(scheme) ==
    CASE scheme = <<104, 116, 116, 112>> -> <<56, 48>>
      [] scheme = <<119, 115>> -> <<56, 48>>
      [] scheme = <<104, 116, 116, 112, 115>> -> <<52, 52, 51>>
      [] scheme = <<119, 115, 115>> -> <<52, 52, 51>>
      [] scheme = <<102, 116, 112>> -> <<50, 49>>
      [] OTHER -> <<>>

\* url.host of an authority host[:port]: Throw when the port is no number;
\* an empty port and the scheme's default port are left out.  A special
\* scheme's host is lower-cased and must not be empty.
UrlHost(authority, scheme) ==
    LET colons == {i \in 1..Len(authority) : authority[i] = 58}
        cut == IF colons = {} THEN Len(authority) + 1 ELSE SetMax(colons)
        name == SubSeq(authority, 1, cut - 1)
        port == SubSeq(authority, cut + 1, Len(authority))
        special == scheme \in SpecialSchemes
        host == IF special THEN Lower(name) ELSE name
    IN  IF \E i \in 1..Len(port) : ~IsDigit(port[i]) THEN Throw
        ELSE IF special /\ name = <<>> THEN Throw
        ELSE IF port = <<>> \/ port = DefaultPort(scheme) THEN Str(host)
        ELSE Str(host \o <<58>> \o port)

\* new URL(s), for the URLs of this model: scheme:[//host[:port]]path[?query][#hash]
\* with no user name, no "." or ".." path segment, no backslash, a port without
\* leading zeros, and no code unit the parser would percent-encode or reject
\* in a host.  Throw (a TypeError) when s does not start with a scheme.
ParseURL(s) ==
    LET colon == FirstIn(s, {58}, 1)
        scheme == Lower(SubSeq(s, 1, colon - 1))
        pathEnd == FirstIn(s, {63, 35}, colon + 1)        \* '?' or '#'
    IN  IF \/ colon > Len(s)
           \/ colon = 1
           \/ ~IsAlpha(s[1])
           \/ \E i \in 1..(colon - 1) : ~IsSchemeChar(s[i])
        THEN Throw
        ELSE IF scheme \in SpecialSchemes
        THEN \* any run of slashes, then the authority up to '/', '?' or '#'
             LET a == SetMin({pathEnd} \cup {i \in (colon + 1)..(pathEnd - 1) : s[i] # 47})
                 aEnd == FirstIn(s, {47, 63, 35}, a)
                 host == UrlHost(SubSeq(s, a, aEnd - 1), scheme)
             IN  IF IsThrow(host) THEN Throw
                 ELSE [t |-> "url", protocol |-> scheme \o <<58>>, host |-> host.v,
                       pathname |-> IF aEnd >= pathEnd THEN <<47>>
                                    ELSE SubSeq(s, aEnd, pathEnd - 1)]
        ELSE IF SubSeq(s, colon + 1, colon + 2) = <<47, 47>>
        THEN LET aEnd == FirstIn(s, {47, 63, 35}, colon + 3)
                 host == UrlHost(SubSeq(s, colon + 3, aEnd - 1), scheme)
             IN  IF IsThrow(host) THEN Throw
                 ELSE [t |-> "url", protocol |-> scheme \o <<58>>, host |-> host.v,
                       pathname |-> SubSeq(s, aEnd, pathEnd - 1)]
        ELSE \* no authority: an empty host, the rest is the path
             [t |-> "url", protocol |-> scheme \o <<58>>, host |-> <<>>,
              pathname |-> SubSeq(s, colon + 1, pathEnd - 1)]

RECURSIVE Digits(_)
Digits(n) == IF n < 10 THEN <<48 + n>> ELSE Digits(n \div 10) \o <<48 + (n % 10)>>

RECURSIVE Join(_, _)
Join(parts, sep) ==
    IF parts = <<>> THEN <<>>
    ELSE IF Len(parts) = 1 THEN parts[1]
    ELSE parts[1] \o sep \o Join(Tail(parts), sep)

\* String(x), as new URL(x) converts its argument: a string is itself, a
\* number n >= 0 its decimal digits, an array of strings its elements joined
\* by ','.
ToUrlString(x) ==
    CASE x.t = "str" -> x.v
      [] x.t = "num" -> Digits(x.v)
      [] x.t = "arr" -> Join([i \in 1..Len(x.v) |-> x.v[i].v], <<44>>)

\* streamUrl.split('?')[0]: a TypeError when streamUrl is no string
BeforeQuery(x) == IF IsStr(x) THEN Str(Split(x.v, 63)[1]) ELSE Throw

\* s.replace(/\/$/, '')
StripTrailingSlash(s) ==
    IF Len(s) >= 1 /\ s[Len(s)] = 47 THEN SubSeq(s, 1, Len(s) - 1) ELSE s

\* A fallback that cuts the query and keeps a trailing slash.
BaseFallbackWhole(x) == BeforeQuery(x)

\* The catch block, line 126.
BaseFallback(x) ==
    LET head == BeforeQuery(x)
    IN  IF IsThrow(head) THEN Throw ELSE Str(StripTrailingSlash(head.v))

\* A filter that drops the empty segments only.
IsNonEmptySegment(seg) == seg # <<>>

\* s => s && s !== ';'
IsMountSegment(seg) == seg # <<>> /\ seg # <<59>>

\* The derivation without the rule of line 114: the segments decide alone.
BaseOfSegments(url) ==
    LET origin == url.protocol \o <<47, 47>> \o url.host
        segments == SelectSeq(Split(url.pathname, 47), IsMountSegment)
    IN  IF Len(segments) > 1 THEN origin \o <<47>> \o segments[1] ELSE origin

\* The try block, lines 109-124, on the parsed URL.
BaseOf(url) ==
    LET origin == url.protocol \o <<47, 47>> \o url.host
        segments == SelectSeq(Split(url.pathname, 47), IsMountSegment)
    IN  IF \/ url.pathname = <<47>>
           \/ url.pathname = <<47, 59>>
           \/ Includes(Lower(url.pathname), <<115, 116, 114, 101, 97, 109>>)
        THEN origin
        ELSE IF Len(segments) > 1 THEN origin \o <<47>> \o segments[1]
        ELSE origin

\* getBaseUrl(streamUrl): a string, or Throw when the catch block throws.
getBaseUrl(x) ==
    LET url == ParseURL(ToUrlString(x))
    IN  IF IsThrow(url) THEN BaseFallback(x) ELSE Str(BaseOf(url))

----------------------------------------------------------------------------
\* fetchLiveMetadata (metadataFetcher.js 133-162)

\* 'https://corsproxy.io/?'
CORS_PROXY ==
    <<104, 116, 116, 112, 115, 58, 47, 47, 99, 111, 114, 115, 112, 114, 111, 120,
      121, 46, 105, 111, 47, 63>>

\* /7.html, /stats?json=1, /status-json.xsl, /status.xsl
Endpoint(type) ==
    CASE type = "ShoutcastV1" -> <<47, 55, 46, 104, 116, 109, 108>>
      [] type = "ShoutcastV2" -> <<47, 115, 116, 97, 116, 115, 63, 106, 115, 111, 110, 61, 49>>
      [] type = "IcecastJSON" ->
            <<47, 115, 116, 97, 116, 117, 115, 45, 106, 115, 111, 110, 46, 120, 115, 108>>
      [] type = "IcecastRaw" -> <<47, 115, 116, 97, 116, 117, 115, 46, 120, 115, 108>>

\* `${CORS_PROXY}${baseUrl}/7.html` and its like
RequestUrl(type, baseUrl) == Str(CORS_PROXY \o baseUrl \o Endpoint(type))

\* The strategies ordered by probe type first, candidate second.
StrategiesByType ==
    << [type |-> "ShoutcastV1", on |-> "base"],
       [type |-> "ShoutcastV1", on |-> "raw"],
       [type |-> "ShoutcastV2", on |-> "base"],
       [type |-> "IcecastJSON", on |-> "base"],
       [type |-> "IcecastJSON", on |-> "raw"],
       [type |-> "IcecastRaw", on |-> "base"],
       [type |-> "IcecastRaw", on |-> "raw"] >>

\* Every probe against both candidates.
StrategiesSymmetric ==
    << [type |-> "ShoutcastV1", on |-> "base"],
       [type |-> "ShoutcastV2", on |-> "base"],
       [type |-> "IcecastJSON", on |-> "base"],
       [type |-> "IcecastRaw", on |-> "base"],
       [type |-> "ShoutcastV1", on |-> "raw"],
       [type |-> "ShoutcastV2", on |-> "raw"],
       [type |-> "IcecastJSON", on |-> "raw"],
       [type |-> "IcecastRaw", on |-> "raw"] >>

\* The strategies array, in the order of lines 139-148: the probe and the
\* candidate it is run against.
Strategies ==
    << [type |-> "ShoutcastV1", on |-> "base"],
       [type |-> "ShoutcastV2", on |-> "base"],
       [type |-> "IcecastJSON", on |-> "base"],
       [type |-> "IcecastRaw", on |-> "base"],
       [type |-> "ShoutcastV1", on |-> "raw"],
       [type |-> "IcecastJSON", on |-> "raw"],
       [type |-> "IcecastRaw", on |-> "raw"] >>

StrategyIds == 1..Len(Strategies)
BaseStrategies == {i \in StrategyIds : Strategies[i].on = "base"}

NotStarted == [status |-> "none"]
Pending == [status |-> "pending"]
IsSettled(r) == r.status \in {"fulfilled", "rejected"}

\* The guard as a test for null and undefined only.
IsNullish(x) == Nullish(x)

\* if (!streamUrl)
IsMissing(x) == ~Truthy(x)

\* A filter that keeps every fulfilled result that is not null.
HasValue(r) == r.status = "fulfilled" /\ r.value # Null

\* r => r.status === 'fulfilled' && r.value
HasContent(r) == r.status = "fulfilled" /\ Truthy(r.value)

\* A wait that ends with the first probe that has content.
SomeContent(results) == \E i \in DOMAIN results : HasContent(results[i])

\* Promise.allSettled(strategies) has resolved
AllSettled(results) == \A i \in DOMAIN results : IsSettled(results[i])

\* A selection by completion order: the probe that settled with content first.
SelectFirstSettled(results) ==
    IF firstContent = 0 THEN Null ELSE results[firstContent].value

\* A selection that looks at the first strategy only.
SelectHead(results) == IF HasContent(results[1]) THEN results[1].value ELSE Null

\* Lines 153-157: valid[0] || null
SelectResult(results) ==
    LET valid == SelectSeq(results, HasContent)
    IN  IF valid # <<>> /\ Truthy(valid[1].value) THEN valid[1].value ELSE Null

----------------------------------------------------------------------------
\* What the servers answer to the probes of a call.

\* <b>Song</b> Name
TitleSong == <<60, 98, 62, 83, 111, 110, 103, 60, 47, 98, 62, 32, 78, 97, 109, 101>>

\* ' ', BEL, 99 times 'b', ' ', 'ccccc<i>d<x': longer than the limit, with a
\* control character, a tag and an unclosed tag
TitleLong ==
    <<32, 7>> \o [i \in 1..(MaxMetadataLen - 1) |-> 98]
        \o <<32, 99, 99, 99, 99, 99, 60, 105, 62, 100, 60, 120>>

Titles == {<<>>, TitleSong, TitleLong}

\* 1,1,100,100,1,128,<title>
SevenHtml(title) ==
    <<49, 44, 49, 44, 49, 48, 48, 44, 49, 48, 48, 44, 49, 44, 49, 50, 56, 44>> \o title

\* <td>Current Song:</td><td class="streamdata"><title></td>
StatusXsl(title) ==
    <<60, 116, 100, 62, 67, 117, 114, 114, 101, 110, 116, 32, 83, 111, 110, 103, 58,
      60, 47, 116, 100, 62, 60, 116, 100, 32, 99, 108, 97, 115, 115, 61, 34, 115,
      116, 114, 101, 97, 109, 100, 97, 116, 97, 34, 62>> \o title \o <<60, 47, 116, 100, 62>>

\* The body of a server of the probe's dialect that is playing `title`.
BodyWith(type, title) ==
    CASE type = "ShoutcastV1" -> Str(SevenHtml(title))
      [] type = "ShoutcastV2" -> Obj([songtitle |-> Str(title)])
      [] type = "IcecastJSON" ->
            Obj([icestats |-> Obj([source |-> Arr(<<Obj([title |-> Str(title)])>>)])])
      [] type = "IcecastRaw" -> Str(StatusXsl(title))

\* A body that reads well and holds no title: 'abc' as text, {} as JSON.
BodyWithout(type) ==
    IF type \in {"ShoutcastV1", "IcecastRaw"} THEN Str(<<97, 98, 99>>) ELSE Obj(<<>>)

\* The answers a probe may get: no answer, an answer that is not 2xx (with a
\* body that would match), a body that cannot be read or parsed, a body
\* without a title, and the bodies with the titles.
Answers(type) ==
    {NetworkError, Http(404, BodyWith(type, TitleSong)), Http(200, Throw),
     Http(200, BodyWithout(type))}
        \cup {Http(200, BodyWith(type, title)) : title \in Titles}

\* What a probe may settle with.
ProbeOutcomes ==
    [ShoutcastV1 |-> {RunProbe("ShoutcastV1", a) : a \in Answers("ShoutcastV1")},
     ShoutcastV2 |-> {RunProbe("ShoutcastV2", a) : a \in Answers("ShoutcastV2")},
     IcecastJSON |-> {RunProbe("IcecastJSON", a) : a \in Answers("IcecastJSON")},
     IcecastRaw |-> {RunProbe("IcecastRaw", a) : a \in Answers("IcecastRaw")}]

\* http://host.com:8000/radio/live.mp3?x=1
UrlMount ==
    <<104, 116, 116, 112, 58, 47, 47, 104, 111, 115, 116, 46, 99, 111, 109, 58, 56,
      48, 48, 48, 47, 114, 97, 100, 105, 111, 47, 108, 105, 118, 101, 46, 109, 112,
      51, 63, 120, 61, 49>>
\* host.com/live/?a=1, which new URL rejects
UrlNoScheme ==
    <<104, 111, 115, 116, 46, 99, 111, 109, 47, 108, 105, 118, 101, 47, 63, 97, 61, 49>>

\* The url_resolved || url of a station record, which is parsed JSON: absent,
\* null, empty, a string, or a value that is no string.
StreamUrls ==
    {Undefined, Null, Str(<<>>), Str(UrlMount), Str(UrlNoScheme), Num(42),
     Arr(<<Str(UrlMount)>>)}

----------------------------------------------------------------------------
\* One fetchLiveMetadata call.

CleanOff ==
    /\ text = Undefined
    /\ cleaned = Undefined
    /\ recleaned = Undefined
    /\ cstep = "off"

ResolveOff ==
    /\ streamUrl = Undefined
    /\ pc = "off"
    /\ base = Undefined
    /\ preq = <<>>
    /\ presult = <<>>
    /\ ret = Undefined
    /\ firstContent = 0

HarnessOff ==
    /\ htype = <<>>
    /\ hanswer = <<>>
    /\ hresult = <<>>

PairOff ==
    /\ calls = <<>>
    /\ world = {}

NoHistory ==
    [started |-> <<>>, recent0 |-> <<>>, fav0 |-> <<>>, toggled |-> {}, undo |-> <<>>,
     timerSet |-> Null, timerTicks |-> 0,
     cache0 |-> Null, age0 |-> Null, fetches |-> 0, result |-> Null]

PlayOff ==
    /\ currentStation = Null
    /\ isPlaying = FALSE
    /\ sleepTimer = Null
    /\ recentStations = <<>>
    /\ favorites = <<>>

HistOff == hist = NoHistory

LoadOff ==
    /\ selectedCountry = Null
    /\ stations = <<>>
    /\ isLoading = FALSE
    /\ requests = <<>>

CountriesOff ==
    /\ allCountries = <<>>
    /\ isCountriesLoading = FALSE
    /\ storage = <<>>
    /\ now = 0
    /\ cpc = "off"

PlayerOff ==
    /\ mounted = FALSE
    /\ error = Null
    /\ useProxy = FALSE
    /\ liveSong = Null
    /\ isSyncing = FALSE
    /\ syncs = <<>>

AppOff == PlayOff /\ LoadOff /\ CountriesOff /\ PlayerOff /\ HistOff

Init ==
    /\ streamUrl \in StreamUrls
    /\ pc = "idle"
    /\ base = Undefined
    /\ preq = [i \in StrategyIds |-> Undefined]
    /\ presult = [i \in StrategyIds |-> NotStarted]
    /\ ret = Undefined
    /\ firstContent = 0
    /\ CleanOff
    /\ HarnessOff
    /\ PairOff
    /\ AppOff

\* The probes of the strategies in S are started against their candidates.
Launched(S, rawUrl) ==
    /\ preq' = [i \in StrategyIds |->
                  IF i \in S
                  THEN RequestUrl(Strategies[i].type,
                                  IF Strategies[i].on = "base" THEN base'.v ELSE rawUrl)
                  ELSE preq[i]]
    /\ presult' = [i \in StrategyIds |-> IF i \in S THEN Pending ELSE presult[i]]

\* The call runs to its await (lines 134-152) in one turn of the event loop:
\* the guard, getBaseUrl, then the strategies array, whose elements are
\* evaluated in order, each starting its probe.  Nothing before line 150 is
\* inside the try: an exception there rejects the call.
Call ==
    /\ pc = "idle"
    /\ IF IsMissing(streamUrl)
       THEN /\ pc' = "returned"
            /\ ret' = Null
            /\ UNCHANGED <<base, preq, presult>>
       ELSE LET b == getBaseUrl(streamUrl)
                raw == BeforeQuery(streamUrl)
            IN  IF IsThrow(b)
                THEN /\ pc' = "rejected"
                     /\ UNCHANGED <<base, preq, presult, ret>>
                ELSE /\ base' = b
                     /\ IF IsThrow(raw)
                        THEN /\ Launched(BaseStrategies, <<>>)
                             /\ pc' = "rejected"
                        ELSE /\ Launched(StrategyIds, raw.v)
                             /\ pc' = "awaiting"
                     /\ UNCHANGED ret
    /\ UNCHANGED <<streamUrl, firstContent, cleanVars, harnessVars, pairVars, appVars>>

\* The probe of strategy i settles with its result on the answer it got.
Settle(i) ==
    /\ presult[i] = Pending
    /\ \E r \in ProbeOutcomes[Strategies[i].type] :
          /\ presult' = [presult EXCEPT ![i] = r]
          /\ firstContent' = IF firstContent = 0 /\ HasContent(r) THEN i ELSE firstContent
    /\ UNCHANGED <<streamUrl, pc, base, preq, ret, cleanVars, harnessVars, pairVars, appVars>>

\* Promise.allSettled resolves and the call returns (lines 152-157).
Return ==
    /\ pc = "awaiting"
    /\ AllSettled(presult)
    /\ ret' = SelectResult(presult)
    /\ pc' = "returned"
    /\ UNCHANGED <<streamUrl, base, preq, presult, firstContent, cleanVars, harnessVars, pairVars, appVars>>

Next ==
    \/ Call
    \/ \E i \in StrategyIds : Settle(i)
    \/ Return

Spec == Init /\ [][Next]_vars

----------------------------------------------------------------------------
\* Launch harness: fetchLiveMetadata called with stream URLs of many shapes,
\* up to its await.  A URL is given by its parts; with each path come the
\* segments that are left of it once the empty and the ';' segments are
\* dropped, and with each scheme and authority the origin a URL parser
\* derives from them.

\* http:
SchemeHttp == <<104, 116, 116, 112, 58>>
\* https:
SchemeHttps == <<104, 116, 116, 112, 115, 58>>
\* HTTP:
SchemeHttpUpper == <<72, 84, 84, 80, 58>>
\* host.com:
SchemeHostCom == <<104, 111, 115, 116, 46, 99, 111, 109, 58>>
\* host.com
HostPlain == <<104, 111, 115, 116, 46, 99, 111, 109>>
\* host.com:8000
HostPort == <<104, 111, 115, 116, 46, 99, 111, 109, 58, 56, 48, 48, 48>>
\* Host.COM:80
HostUpperPort80 == <<72, 111, 115, 116, 46, 67, 79, 77, 58, 56, 48>>
\* host.com:80
HostPort80 == <<104, 111, 115, 116, 46, 99, 111, 109, 58, 56, 48>>
\* //host.com
SlashSlashHost == <<47, 47, 104, 111, 115, 116, 46, 99, 111, 109>>

UrlQueries == {<<>>, <<63, 120, 61, 49>>, <<63, 97, 47, 98, 47, 115, 116, 114, 101, 97, 109>>}   \* none, ?x=1, ?a/b/stream

\* The paths of the URLs that have an authority, and of those without a scheme.
UrlPaths ==
    {
      \* (empty)
      [path |-> <<>>,
       segments |-> <<>>],
      \* /
      [path |-> <<47>>,
       segments |-> <<>>],
      \* /;
      [path |-> <<47, 59>>,
       segments |-> <<>>],
      \* //
      [path |-> <<47, 47>>,
       segments |-> <<>>],
      \* /livestream
      [path |-> <<47, 108, 105, 118, 101, 115, 116, 114, 101, 97, 109>>,
       segments |-> <<<<108, 105, 118, 101, 115, 116, 114, 101, 97, 109>>>>],
      \* /LiveSTREAM
      [path |-> <<47, 76, 105, 118, 101, 83, 84, 82, 69, 65, 77>>,
       segments |-> <<<<76, 105, 118, 101, 83, 84, 82, 69, 65, 77>>>>],
      \* /9020/stream
      [path |-> <<47, 57, 48, 50, 48, 47, 115, 116, 114, 101, 97, 109>>,
       segments |-> <<<<57, 48, 50, 48>>, <<115, 116, 114, 101, 97, 109>>>>],
      \* /live.mp3
      [path |-> <<47, 108, 105, 118, 101, 46, 109, 112, 51>>,
       segments |-> <<<<108, 105, 118, 101, 46, 109, 112, 51>>>>],
      \* /live/
      [path |-> <<47, 108, 105, 118, 101, 47>>,
       segments |-> <<<<108, 105, 118, 101>>>>],
      \* /radio/;
      [path |-> <<47, 114, 97, 100, 105, 111, 47, 59>>,
       segments |-> <<<<114, 97, 100, 105, 111>>>>],
      \* /;;
      [path |-> <<47, 59, 59>>,
       segments |-> <<<<59, 59>>>>],
      \* /radio/live.mp3
      [path |-> <<47, 114, 97, 100, 105, 111, 47, 108, 105, 118, 101, 46, 109, 112, 51>>,
       segments |-> <<<<114, 97, 100, 105, 111>>, <<108, 105, 118, 101, 46, 109, 112, 51>>>>],
      \* /a/b/c
      [path |-> <<47, 97, 47, 98, 47, 99>>,
       segments |-> <<<<97>>, <<98>>, <<99>>>>],
      \* //a//b/
      [path |-> <<47, 47, 97, 47, 47, 98, 47>>,
       segments |-> <<<<97>>, <<98>>>>],
      \* /;/a/b
      [path |-> <<47, 59, 47, 97, 47, 98>>,
       segments |-> <<<<97>>, <<98>>>>]
    }

\* host.com:8000/... is a URL of the scheme host.com with no authority: these are its paths.
OpaquePaths ==
    {
      \* 8000
      [path |-> <<56, 48, 48, 48>>,
       segments |-> <<<<56, 48, 48, 48>>>>],
      \* 8000/stream
      [path |-> <<56, 48, 48, 48, 47, 115, 116, 114, 101, 97, 109>>,
       segments |-> <<<<56, 48, 48, 48>>, <<115, 116, 114, 101, 97, 109>>>>],
      \* 8000/live.mp3
      [path |-> <<56, 48, 48, 48, 47, 108, 105, 118, 101, 46, 109, 112, 51>>,
       segments |-> <<<<56, 48, 48, 48>>, <<108, 105, 118, 101, 46, 109, 112, 51>>>>],
      \* 8000/radio/live.mp3
      [path |-> <<56, 48, 48, 48, 47, 114, 97, 100, 105, 111, 47, 108, 105, 118, 101, 46, 109, 112, 51>>,
       segments |-> <<<<56, 48, 48, 48>>, <<114, 97, 100, 105, 111>>, <<108, 105, 118, 101, 46, 109, 112, 51>>>>]
    }

\* scheme://authority path query
HierarchicalUrls ==
    {[kind |-> "hier", scheme |-> sc, authority |-> au, path |-> pa.path,
      segments |-> pa.segments, query |-> qu] :
        sc \in {SchemeHttp, SchemeHttps, SchemeHttpUpper},
        au \in {HostPlain, HostPort, HostUpperPort80},
        pa \in UrlPaths, qu \in UrlQueries}

\* host.com: path query
OpaqueUrls ==
    {[kind |-> "opaque", scheme |-> SchemeHostCom, authority |-> <<>>, path |-> pa.path,
      segments |-> pa.segments, query |-> qu] :
        pa \in OpaquePaths, qu \in UrlQueries}

\* No scheme: host.com path query and //host.com path query, which new URL
\* rejects.
SchemelessUrls ==
    {[kind |-> "schemeless", scheme |-> <<>>, authority |-> au, path |-> pa.path,
      segments |-> pa.segments, query |-> qu] :
        au \in {HostPlain, SlashSlashHost}, pa \in UrlPaths, qu \in UrlQueries}

UrlParts == HierarchicalUrls \cup OpaqueUrls \cup SchemelessUrls

\* The URL, without its query and whole.
ComposeNoQuery(p) ==
    p.scheme \o (IF p.kind = "hier" THEN <<47, 47>> ELSE <<>>) \o p.authority \o p.path
Compose(p) == ComposeNoQuery(p) \o p.query

LaunchUrls == {Str(Compose(p)) : p \in UrlParts}

LaunchInit ==
    /\ streamUrl \in LaunchUrls
    /\ pc = "idle"
    /\ base = Undefined
    /\ preq = [i \in StrategyIds |-> Undefined]
    /\ presult = [i \in StrategyIds |-> NotStarted]
    /\ ret = Undefined
    /\ firstContent = 0
    /\ CleanOff
    /\ HarnessOff
    /\ PairOff
    /\ AppOff

LaunchSpec == LaunchInit /\ [][Call]_vars

----------------------------------------------------------------------------
\* Concurrent calls: two fetchLiveMetadata calls in flight at once.  All the
\* state of a call is in its parameter and its local constants (base,
\* strategies, results); the module holds no variable.  The servers are the
\* same for both calls: what a request is answered depends on its URL alone.

CallIds == {1, 2}

\* http://host.com:8000/radio/jazz.mp3: another stream of the mount of UrlMount
UrlJazz ==
    <<104, 116, 116, 112, 58, 47, 47, 104, 111, 115, 116, 46, 99, 111, 109, 58,
      56, 48, 48, 48, 47, 114, 97, 100, 105, 111, 47, 106, 97, 122, 122, 46,
      109, 112, 51>>

PairUrls == {Str(UrlMount), Str(UrlJazz)}

\* The locals of a call at the end of its synchronous part (lines 134-148),
\* as Call leaves them: returned with null, rejected, or awaiting its probes.
CallStep(url) ==
    LET none == [pc |-> "idle", base |-> Undefined, ret |-> Undefined,
                 req |-> [i \in StrategyIds |-> Undefined],
                 results |-> [i \in StrategyIds |-> NotStarted]]
        started(S, b, raw) ==
            [none EXCEPT
                !.base = b,
                !.req = [i \in StrategyIds |->
                           IF i \in S
                           THEN RequestUrl(Strategies[i].type,
                                           IF Strategies[i].on = "base" THEN b.v ELSE raw)
                           ELSE Undefined],
                !.results = [i \in StrategyIds |-> IF i \in S THEN Pending ELSE NotStarted]]
    IN  IF IsMissing(url) THEN [none EXCEPT !.pc = "returned", !.ret = Null]
        ELSE LET b == getBaseUrl(url)
                 raw == BeforeQuery(url)
             IN  IF IsThrow(b) THEN [none EXCEPT !.pc = "rejected"]
                 ELSE IF IsThrow(raw)
                 THEN [started(BaseStrategies, b, <<>>) EXCEPT !.pc = "rejected"]
                 ELSE [started(StrategyIds, b, raw.v) EXCEPT !.pc = "awaiting"]

\* The requests the calls of the harness make, each with the type of its probe.
PairRequests ==
    UNION {{[type |-> Strategies[i].type, req |-> CallStep(u).req[i]] : i \in StrategyIds} :
              u \in PairUrls}

\* A server that answers a request with a title plays the text of the
\* request's URL behind the proxy prefix; a server that does not answers 404.
ServerAnswer(type, req, titled) ==
    IF titled
    THEN Http(200, BodyWith(type, SubSeq(req.v, Len(CORS_PROXY) + 1, Len(req.v))))
    ELSE Http(404, BodyWithout(type))

\* Every request of the harness, answered and not, with what its probe gives.
PairOutcomes ==
    {[type |-> r.type, req |-> r.req, titled |-> t,
      result |-> RunProbe(r.type, ServerAnswer(r.type, r.req, t))] :
        r \in PairRequests, t \in BOOLEAN}

\* What the probe of a request settles with when the requests of w are the
\* ones answered with a title.
OutcomeIn(w, type, req) ==
    (CHOOSE o \in PairOutcomes :
        o.type = type /\ o.req = req /\ o.titled = (req \in w)).result

\* The requests for `type` against the text `candidate`
On(type, candidate) == RequestUrl(type, candidate)

\* http://host.com:8000/radio, http://host.com:8000/radio/live.mp3
MountBase == SubSeq(UrlMount, 1, 26)
MountRaw == SubSeq(UrlMount, 1, 35)

\* The servers: none answers; every endpoint of the mount answers; and three
\* where endpoints of the mount and of the two streams answer.
Worlds ==
    {{},
     {On(type, MountBase) : type \in ProbeTypes},
     {On("IcecastRaw", MountBase), On("ShoutcastV1", MountRaw), On("IcecastJSON", UrlJazz)},
     {On("ShoutcastV1", MountRaw), On("IcecastRaw", UrlJazz)},
     {On("IcecastJSON", MountRaw)}}

PairInit ==
    /\ ResolveOff
    /\ CleanOff
    /\ HarnessOff
    /\ AppOff
    /\ world \in Worlds
    /\ \E second \in PairUrls :
          calls = [c \in CallIds |->
                     [url |-> IF c = 1 THEN Str(UrlMount) ELSE second,
                      pc |-> "idle", base |-> Undefined, ret |-> Undefined,
                      req |-> [i \in StrategyIds |-> Undefined],
                      results |-> [i \in StrategyIds |-> NotStarted],
                      overlapped |-> FALSE]]

\* A results array that all calls share: the one of the first call.
ResultsShared(c) == calls[1].results

\* const results (line 152): what the call's own probes have settled with
ResultsOf(c) == calls[c].results

\* Call c runs to its await; it overlaps the calls that are waiting then.
PairCall(c) ==
    /\ calls[c].pc = "idle"
    /\ LET st == CallStep(calls[c].url)
           waiting == {d \in CallIds : calls[d].pc = "awaiting"}
       IN  calls' = [d \in CallIds |->
                       IF d = c
                       THEN [calls[c] EXCEPT !.pc = st.pc, !.base = st.base, !.ret = st.ret,
                                             !.req = st.req, !.results = st.results,
                                             !.overlapped = (waiting # {})]
                       ELSE IF d \in waiting THEN [calls[d] EXCEPT !.overlapped = TRUE]
                       ELSE calls[d]]
    /\ UNCHANGED <<world, resolveVars, cleanVars, harnessVars, appVars>>

\* The probe of strategy i of call c settles on the answer to its request.
PairSettle(c, i) ==
    /\ calls[c].results[i] = Pending
    /\ calls' = [calls EXCEPT ![c].results[i] =
                    OutcomeIn(world, Strategies[i].type, calls[c].req[i])]
    /\ UNCHANGED <<world, resolveVars, cleanVars, harnessVars, appVars>>

\* Call c returns (lines 152-157).
PairReturn(c) ==
    /\ calls[c].pc = "awaiting"
    /\ AllSettled(ResultsOf(c))
    /\ calls' = [calls EXCEPT ![c].pc = "returned", ![c].ret = SelectResult(ResultsOf(c))]
    /\ UNCHANGED <<world, resolveVars, cleanVars, harnessVars, appVars>>

PairNext ==
    \/ \E c \in CallIds : PairCall(c)
    \/ \E c \in CallIds, i \in StrategyIds : PairSettle(c, i)
    \/ \E c \in CallIds : PairReturn(c)

PairSpec == PairInit /\ [][PairNext]_vars

----------------------------------------------------------------------------
\* Probe harness: the probes of one call, each run against a canned answer
\* (status and body), as a test of the probes alone would run them.

HarnessProbes == 2

\* 1,2,3,4 <newline> 5,6,7,8: six commas, but no line with six
FewCommas == <<49, 44, 50, 44, 51, 44, 52, 10, 53, 44, 54, 44, 55, 44, 56>>

\* The label cell and Song, with no </td> after it
OpenCell ==
    <<67, 117, 114, 114, 101, 110, 116, 32, 83, 111, 110, 103, 58, 60, 47, 116, 100,
      62, 60, 116, 100, 32, 99, 108, 97, 115, 115, 61, 34, 115, 116, 114, 101, 97,
      109, 100, 97, 116, 97, 34, 62, 83, 111, 110, 103>>

\* The label cell, So <newline> ng, </td>: the cell ends on another line
BrokenCell ==
    <<67, 117, 114, 114, 101, 110, 116, 32, 83, 111, 110, 103, 58, 60, 47, 116, 100,
      62, 60, 116, 100, 32, 99, 108, 97, 115, 115, 61, 34, 115, 116, 114, 101, 97,
      109, 100, 97, 116, 97, 34, 62, 83, 111, 10, 110, 103, 60, 47, 116, 100, 62>>

\* Bodies that read well and lack the field or the pattern the probe looks for.
BodiesWithout(type) ==
    CASE type = "ShoutcastV1" -> {Str(<<>>), Str(<<97, 98, 99>>), Str(FewCommas)}
      [] type = "IcecastRaw" -> {Str(<<>>), Str(<<97, 98, 99>>), Str(OpenCell), Str(BrokenCell)}
      [] type = "ShoutcastV2" ->
            {Null, Num(7), Arr(<<>>), Obj(<<>>), Obj([songtitle |-> Null]),
             Obj([streams |-> Arr(<<>>)]), Obj([streams |-> Arr(<<Obj(<<>>)>>)])}
      [] type = "IcecastJSON" ->
            {Null, Num(7), Obj(<<>>), Obj([icestats |-> Obj(<<>>)]),
             Obj([icestats |-> Obj([source |-> Arr(<<>>)])]),
             Obj([icestats |-> Obj([source |-> Obj(<<>>)])]),
             Obj([icestats |-> Obj([source |-> Arr(<<Obj(<<>>), Null>>)])])}

\* Bodies whose field is there and holds a number, not a string.
BodiesWithNumber(type) ==
    CASE type = "ShoutcastV2" -> {Obj([songtitle |-> Num(5)])}
      [] type = "IcecastJSON" -> {Obj([icestats |-> Obj([source |-> Obj([title |-> Num(5)])])])}
      [] OTHER -> {}

\* Artist, The - Title
TitleCommas ==
    <<65, 114, 116, 105, 115, 116, 44, 32, 84, 104, 101, 32, 45, 32, 84, 105, 116,
      108, 101>>

TitleAlpha == <<65, 108, 112, 104, 97>>        \* Alpha
TitleBeta == <<66, 101, 116, 97>>               \* Beta

\* What the title or songtitle field of a well-formed source or stream holds:
\* nothing (no such field), the empty string, or a title.
FieldValues == {Undefined, Str(<<>>), Str(TitleAlpha), Str(TitleBeta)}

\* {} when the field is missing, {name: v} otherwise
WithField(name, v) ==
    IF v = Undefined THEN Obj(<<>>)
    ELSE IF name = "title" THEN Obj([title |-> v]) ELSE Obj([songtitle |-> v])

\* The title fields of the sources of an Icecast status, in list order.
SourceTitleLists ==
    UNION {[1..n -> FieldValues] : n \in 0..2}
        \cup {<<Undefined, Str(<<>>), Str(TitleBeta)>>,
              <<Undefined, Str(TitleAlpha), Str(TitleBeta)>>}

\* {"icestats": {"source": ...}}: a list of sources, or the single source
\* itself when the server has one mount and `single` is set.
IcecastBody(titles, single) ==
    LET sources == [i \in 1..Len(titles) |-> WithField("title", titles[i])]
    IN  Obj([icestats |-> Obj([source |-> IF single THEN sources[1] ELSE Arr(sources)])])

\* The songtitle fields of the streams of a Shoutcast v2 status: Undefined
\* when the status has no streams field.
StreamTitleLists == {Undefined} \cup {Arr(l) : l \in UNION {[1..n -> FieldValues] : n \in 0..2}}

\* {"songtitle": top, "streams": [{"songtitle": ...}, ...]}
ShoutcastV2Body(top, streams) ==
    LET list == IF streams = Undefined THEN Undefined
                ELSE Arr([i \in 1..Len(streams.v) |-> WithField("songtitle", streams.v[i])])
    IN  IF top = Undefined /\ list = Undefined THEN Obj(<<>>)
        ELSE IF top = Undefined THEN Obj([streams |-> list])
        ELSE IF list = Undefined THEN Obj([songtitle |-> top])
        ELSE Obj([songtitle |-> top, streams |-> list])

\* 2xx answers in the JSON dialects, with what the payload holds.
StructuredAnswers(type) ==
    CASE type = "IcecastJSON" ->
            {[kind |-> "sources", titles |-> l, single |-> FALSE,
              answer |-> Http(200, IcecastBody(l, FALSE))] : l \in SourceTitleLists}
            \cup {[kind |-> "sources", titles |-> <<v>>, single |-> TRUE,
                   answer |-> Http(200, IcecastBody(<<v>>, TRUE))] : v \in FieldValues}
      [] type = "ShoutcastV2" ->
            {[kind |-> "songtitles", top |-> t, streams |-> l,
              answer |-> Http(200, ShoutcastV2Body(t, l))] :
                t \in {Undefined, Str(<<>>), Str(TitleAlpha)}, l \in StreamTitleLists}
      [] OTHER -> {}

\* The canned answers, each with the case it stands for.
HarnessAnswers(type) ==
    {[kind |-> "network", answer |-> NetworkError]}
        \cup {[kind |-> "status", answer |-> Http(st, BodyWith(type, TitleSong))] :
                st \in {304, 404, 500}}
        \cup {[kind |-> "malformed", answer |-> Http(200, Throw)]}
        \cup {[kind |-> "missing", answer |-> Http(200, b)] : b \in BodiesWithout(type)}
        \cup {[kind |-> "number", answer |-> Http(200, b)] : b \in BodiesWithNumber(type)}
        \cup {[kind |-> "title", title |-> title,
               answer |-> Http(st, BodyWith(type, title))] :
                st \in {200, 204}, title \in Titles}
        \cup {[kind |-> "commas", title |-> TitleCommas,
               answer |-> Http(200, BodyWith(type, TitleCommas))]}
        \cup StructuredAnswers(type)

HarnessIds == 1..HarnessProbes

HarnessInit ==
    /\ ResolveOff
    /\ CleanOff
    /\ PairOff
    /\ AppOff
    /\ htype \in [HarnessIds -> ProbeTypes]
    /\ hanswer = [k \in HarnessIds |-> Undefined]
    /\ hresult = [k \in HarnessIds |-> Pending]

\* Every probe on every canned answer of its type, with the promise it gives.
HarnessRuns ==
    UNION {{[type |-> ty, given |-> a, result |-> RunProbe(ty, a.answer)] :
               a \in HarnessAnswers(ty)} : ty \in ProbeTypes}

\* The probe k of the call gets its answer and settles.
HarnessSettle(k) ==
    /\ hresult[k] = Pending
    /\ \E run \in HarnessRuns :
          /\ run.type = htype[k]
          /\ hanswer' = [hanswer EXCEPT ![k] = run.given]
          /\ hresult' = [hresult EXCEPT ![k] = run.result]
    /\ UNCHANGED <<htype, resolveVars, cleanVars, pairVars, appVars>>

HarnessNext == \E k \in HarnessIds : HarnessSettle(k)

ProbeSpec == HarnessInit /\ [][HarnessNext]_vars

----------------------------------------------------------------------------
\* Sanitizer harness: cleanMetadata applied to an input, then to its own
\* output.

MaxAffix == 1
LongLens == {0, 98, 99, 100, 248, 249, 250}
Alphabet == {LT, GT, 97, 32, 7}         \* '<', '>', 'a', ' ', BEL
FillChars == {97, 32, LT}

Affixes == UNION {[1..n -> Alphabet] : n \in 0..MaxAffix}
Rep(c, n) == [i \in 1..n |-> c]

\* pre . fill^n . post, of a length around those of LongLens, and the titles
\* the servers of the model play
CleanInputs ==
    {pre \o Rep(c, n) \o post :
        pre \in Affixes, post \in Affixes, c \in FillChars,
        n \in {m - k : m \in LongLens, k \in 0..(2 * MaxAffix)} \cap Nat}
        \cup Titles

CleanInit ==
    /\ ResolveOff
    /\ HarnessOff
    /\ PairOff
    /\ AppOff
    /\ text \in {Str(s) : s \in CleanInputs}
    /\ cleaned = Undefined
    /\ recleaned = Undefined
    /\ cstep = "in"

CleanOnce ==
    /\ cstep = "in"
    /\ cleaned' = cleanMetadata(text)
    /\ cstep' = "once"
    /\ UNCHANGED <<text, recleaned, resolveVars, harnessVars, pairVars, appVars>>

CleanTwice ==
    /\ cstep = "once"
    /\ recleaned' = cleanMetadata(cleaned)
    /\ cstep' = "twice"
    /\ UNCHANGED <<text, cleaned, resolveVars, harnessVars, pairVars, appVars>>

CleanNext == CleanOnce \/ CleanTwice

CleanSpec == CleanInit /\ [][CleanNext]_vars

\* What cleanMetadata is handed: nothing, or what a probe has extracted from
\* a response: the group of a match (a string), or the truthy value of a
\* title or songtitle field of parsed JSON, which is any JSON value.
RawValues ==
    {Undefined, Null, Num(0), Num(5), Bool(FALSE), Bool(TRUE), Arr(<<>>),
     Arr(<<Str(TitleSong)>>), Obj(<<>>)}
        \cup {Str(s) : s \in CleanInputs}

RawInit ==
    /\ ResolveOff
    /\ HarnessOff
    /\ PairOff
    /\ AppOff
    /\ text \in RawValues
    /\ cleaned = Undefined
    /\ recleaned = Undefined
    /\ cstep = "in"

RawSpec == RawInit /\ [][CleanOnce]_vars

----------------------------------------------------------------------------
\* RadioProvider (src/src/main.jsx 51-254), the sleep timer menu of Header
\* (src/src/components/Header.jsx) and AudioPlayer
\* (src/src/components/AudioPlayer.jsx).
\*
\* A station is the record of its stationuuid.  A handler is one action: the
\* state updates it queues and the effects React runs when it commits them.
\* Volume, mute, buffering, search, view and icon state are left out: no
\* handler below reads them.

MaxPlays == 3      \* stations started in one run
MaxInFlight == 2   \* handleSyncMetadata calls awaiting their response at once

RecentLimit == 15        \* slice(0, 15)
SecondsPerMinute == 60   \* mins * 60
TimerMinutes == {15, 30, 45, 60}
NumStations == RecentLimit + 2

Station(k) == [stationuuid |-> k]
AllStations == {Station(k) : k \in 1..NumStations}
FewStations == {Station(1), Station(2)}
FavStations == {Station(k) : k \in 1..4}

\* prev.filter(s => s.stationuuid !== station.stationuuid)
WithoutStation(prev, station) ==
    SelectSeq(prev, LAMBDA s : s.stationuuid # station.stationuuid)

\* list.slice(0, n)
Slice0(list, n) == SubSeq(list, 1, IF Len(list) < n THEN Len(list) ELSE n)

\* A recent list that keeps the older entry of a station that is started again.
RecentKeepsOld(prev, station) == Slice0(<<station>> \o prev, RecentLimit)

\* The updater of setRecentStations in playStation.
RecentAfter(prev, station) ==
    Slice0(<<station>> \o WithoutStation(prev, station), RecentLimit)

\* prev.some(f => f.stationuuid === station.stationuuid)
SomeStation(prev, uuid) == \E i \in 1..Len(prev) : prev[i].stationuuid = uuid

\* A toggle that adds without looking.
FavoritesAppend(prev, station) == Append(prev, station)

\* The updater of setFavorites in toggleFavorite.
FavoritesAfter(prev, station) ==
    IF SomeStation(prev, station.stationuuid)
    THEN WithoutStation(prev, station)
    ELSE Append(prev, station)

isStationFavorite(stationId) == SomeStation(favorites, stationId)

\* A comparison that null passes.
IsCurrentOrNone(station) ==
    currentStation = Null \/ currentStation.stationuuid = station.stationuuid

\* currentStation?.stationuuid === station.stationuuid, for a station that has
\* a stationuuid.
IsCurrent(station) ==
    currentStation # Null /\ currentStation.stationuuid = station.stationuuid

\* A timer that expires on the tick that finds it at less than 1.
ExpiresBelowOne(prev) == prev # Null /\ prev.v < 1

\* prev <= 1 in the updater of the sleep timer interval
TimerExpires(prev) == prev # Null /\ prev.v <= 1

\* The updater of setSleepTimer in the interval callback.
SleepTimerAfter(prev) ==
    IF prev = Null THEN Null
    ELSE IF TimerExpires(prev) THEN Null
    ELSE Num(prev.v - 1)

\* The interval of the sleep timer effect exists.
TimerRunning == sleepTimer # Null /\ isPlaying

\* The title fetchLiveMetadata finds for a station: "S" and a digit.
SongOf(station) == Str(<<83, 48 + station.stationuuid>>)

\* What the fetchLiveMetadata call of a sync can settle with.
SyncOutcomes(station) ==
    {AsyncResult(SongOf(station)), AsyncResult(Null), AsyncResult(Throw)}

RemoveAt(list, k) == SubSeq(list, 1, k - 1) \o SubSeq(list, k + 1, Len(list))

\* The interval of the polling effect exists.
Polling == isPlaying /\ currentStation # Null

\* The effects of AudioPlayer that run when a handler has changed currentStation
\* or isPlaying: the reset on station change, then the polling effect with its
\* initial fetch.  errorSet and proxySet are what the handler itself has set.
Effects(errorSet, proxySet) ==
    LET stationChanged == currentStation' # currentStation
        rerun == currentStation' # currentStation \/ isPlaying' # isPlaying
        fetch == rerun /\ isPlaying' /\ currentStation' # Null
    IN  IF ~mounted THEN UNCHANGED playerVars
        ELSE /\ fetch => Len(syncs) < MaxInFlight
             /\ mounted' = mounted
             /\ error' = IF stationChanged THEN Null ELSE errorSet
             /\ useProxy' = IF stationChanged THEN FALSE ELSE proxySet
             /\ liveSong' = IF stationChanged THEN Null ELSE liveSong
             /\ isSyncing' = IF fetch THEN TRUE ELSE isSyncing
             /\ syncs' = IF fetch THEN Append(syncs, currentStation') ELSE syncs

PlayStation(station) ==
    /\ IF IsCurrent(station)
       THEN /\ isPlaying' = ~isPlaying
            /\ UNCHANGED <<currentStation, recentStations, hist>>
       ELSE /\ Len(hist.started) < MaxPlays
            /\ currentStation' = station
            /\ isPlaying' = TRUE
            /\ recentStations' = RecentAfter(recentStations, station)
            /\ hist' = [hist EXCEPT !.started = Append(@, station)]
    /\ UNCHANGED <<sleepTimer, favorites, loadVars, countryVars, coreVars>>
    /\ Effects(error, useProxy)

ToggleFavorite(station) ==
    /\ favorites' = FavoritesAfter(favorites, station)
    /\ hist' = [hist EXCEPT
                  !.toggled = IF station.stationuuid \in @
                              THEN @ \ {station.stationuuid}
                              ELSE @ \cup {station.stationuuid},
                  !.undo = <<[station |-> station, before |-> favorites]>>
                           \o Slice0(@, 1)]
    /\ UNCHANGED <<currentStation, isPlaying, sleepTimer, recentStations,
                   loadVars, countryVars, playerVars, coreVars>>

\* Header: a menu entry (15, 30, 45, 60 minutes) or, while a timer is set,
\* "Stop Timer" (0).
HandleSetTimer(mins) ==
    /\ mins = 0 => Truthy(sleepTimer)
    /\ sleepTimer' = IF mins = 0 THEN Null ELSE Num(mins * SecondsPerMinute)
    /\ hist' = [hist EXCEPT !.timerSet = sleepTimer', !.timerTicks = 0]
    /\ UNCHANGED <<currentStation, isPlaying, recentStations, favorites,
                   loadVars, countryVars, playerVars, coreVars>>

\* One run of the interval callback of the sleep timer effect.
TimerTick ==
    /\ TimerRunning
    /\ sleepTimer' = SleepTimerAfter(sleepTimer)
    /\ isPlaying' = IF TimerExpires(sleepTimer) THEN FALSE ELSE isPlaying
    /\ hist' = [hist EXCEPT !.timerTicks = @ + 1]
    /\ UNCHANGED <<currentStation, recentStations, favorites,
                   loadVars, countryVars, coreVars>>
    /\ Effects(error, useProxy)

\* AudioPlayer renders nothing without a station (line 149).
PlayerShown == mounted /\ currentStation # Null

\* The play/pause button of AudioPlayer.
TogglePlayback ==
    /\ PlayerShown
    /\ isPlaying' = ~isPlaying
    /\ UNCHANGED <<currentStation, sleepTimer, recentStations, favorites, hist,
                   loadVars, countryVars, coreVars>>
    /\ Effects(error, useProxy)

\* The media session handlers, registered once a station plays.
MediaSession(play) ==
    /\ PlayerShown
    /\ isPlaying' = play
    /\ UNCHANGED <<currentStation, sleepTimer, recentStations, favorites, hist,
                   loadVars, countryVars, coreVars>>
    /\ Effects(error, useProxy)

ConnectionError == Str("Connection error. Try Proxy?")
NotPlayable == Str("Stream could not be played.")
BlockedHttp == Str("Chrome blocks plain HTTP streams on HTTPS sites. Try Proxy!")
BlockedCors == Str("Stream blocked by CORS or server offline.")
ProxyFailed == Str("Stream unavailable even via proxy.")

\* onError of the audio element; error is null or one of the messages above,
\* none of them empty, so !error is error = null.
AudioError ==
    /\ PlayerShown
    /\ isPlaying' = FALSE
    /\ UNCHANGED <<currentStation, sleepTimer, recentStations, favorites, hist,
                   loadVars, countryVars, coreVars>>
    /\ Effects(IF error = Null
               THEN (IF ~useProxy THEN ConnectionError ELSE NotPlayable)
               ELSE error,
               useProxy)

\* The catch of the play() promise; the callback reads the proxy flag and the
\* stream URL of the render that called play().
PlayRejected(proxyThen, blockedHttp) ==
    /\ PlayerShown
    /\ isPlaying' = FALSE
    /\ UNCHANGED <<currentStation, sleepTimer, recentStations, favorites, hist,
                   loadVars, countryVars, coreVars>>
    /\ Effects(IF ~proxyThen
               THEN (IF blockedHttp THEN BlockedHttp ELSE BlockedCors)
               ELSE ProxyFailed,
               useProxy)

handleRetryWithProxy ==
    /\ PlayerShown
    /\ isPlaying' = TRUE
    /\ UNCHANGED <<currentStation, sleepTimer, recentStations, favorites, hist,
                   loadVars, countryVars, coreVars>>
    /\ Effects(Null, TRUE)

\* handleSyncMetadata up to its await, called by the interval of the polling
\* effect.
PollTick ==
    /\ mounted
    /\ Polling
    /\ Len(syncs) < MaxInFlight
    /\ isSyncing' = TRUE
    /\ syncs' = Append(syncs, currentStation)
    /\ UNCHANGED <<mounted, error, useProxy, liveSong, playVars, hist,
                   loadVars, countryVars, coreVars>>

\* A sync that stops playback when it finds no title.
SyncDoneOrStop(k, outcome) ==
    /\ k \in 1..Len(syncs)
    /\ outcome \in SyncOutcomes(syncs[k])
    /\ liveSong' = IF HasContent(outcome) THEN outcome.value ELSE liveSong
    /\ isPlaying' = (isPlaying /\ HasContent(outcome))
    /\ isSyncing' = FALSE
    /\ syncs' = RemoveAt(syncs, k)
    /\ UNCHANGED <<mounted, error, useProxy, currentStation, sleepTimer,
                   recentStations, favorites, hist, loadVars, countryVars, coreVars>>

\* handleSyncMetadata from its await on: the k-th call in flight gets its
\* answer.
SyncDone(k, outcome) ==
    /\ k \in 1..Len(syncs)
    /\ outcome \in SyncOutcomes(syncs[k])
    /\ liveSong' = IF HasContent(outcome) THEN outcome.value ELSE liveSong
    /\ isSyncing' = FALSE
    /\ syncs' = RemoveAt(syncs, k)
    /\ UNCHANGED <<mounted, error, useProxy, playVars, hist,
                   loadVars, countryVars, coreVars>>

CoreOff == ResolveOff /\ CleanOff /\ HarnessOff /\ PairOff

\* RadioProvider alone: a station card (playStation), the timer menu, the
\* timer interval.
TimerInit ==
    /\ CoreOff
    /\ AppOff

TimerNext ==
    \/ \E station \in FewStations : PlayStation(station)
    \/ \E mins \in TimerMinutes \cup {0} : HandleSetTimer(mins)
    \/ TimerTick

TimerSpec == TimerInit /\ [][TimerNext]_vars

\* The recent list as localStorage hands it over: empty, or full.
FullRecent == [i \in 1..RecentLimit |-> Station(i)]

RecentInit ==
    /\ CoreOff
    /\ LoadOff /\ CountriesOff /\ PlayerOff
    /\ currentStation = Null
    /\ isPlaying = FALSE
    /\ sleepTimer = Null
    /\ favorites = <<>>
    /\ recentStations \in {<<>>, FullRecent}
    /\ hist = [NoHistory EXCEPT !.recent0 = recentStations]

RecentNext == \E station \in AllStations : PlayStation(station)

RecentSpec == RecentInit /\ [][RecentNext]_vars

FavInit ==
    /\ CoreOff
    /\ LoadOff /\ CountriesOff /\ PlayerOff
    /\ currentStation = Null
    /\ isPlaying = FALSE
    /\ sleepTimer = Null
    /\ recentStations = <<>>
    /\ favorites \in {<<>>, <<Station(3), Station(1)>>}
    /\ hist = [NoHistory EXCEPT !.fav0 = favorites]

FavNext == \E station \in FavStations : ToggleFavorite(station)

FavSpec == FavInit /\ [][FavNext]_vars

\* RadioProvider with AudioPlayer: at start, or in a session in which
\* Station(1) plays, its first sync has been answered and a timer of 15 minutes
\* has two seconds left.
PlayerInit ==
    /\ CoreOff
    /\ LoadOff /\ CountriesOff
    /\ mounted = TRUE
    /\ error = Null
    /\ useProxy = FALSE
    /\ isSyncing = FALSE
    /\ syncs = <<>>
    /\ favorites = <<>>
    /\ \/ /\ currentStation = Null
          /\ isPlaying = FALSE
          /\ sleepTimer = Null
          /\ recentStations = <<>>
          /\ liveSong = Null
          /\ hist = NoHistory
       \/ /\ currentStation = Station(1)
          /\ isPlaying = TRUE
          /\ sleepTimer = Num(2)
          /\ recentStations = <<Station(1)>>
          /\ liveSong \in {Null, SongOf(Station(1))}
          /\ hist = [NoHistory EXCEPT
                       !.started = <<Station(1)>>,
                       !.timerSet = Num(15 * SecondsPerMinute),
                       !.timerTicks = 15 * SecondsPerMinute - 2]

PlayerNext ==
    \/ \E station \in FewStations : PlayStation(station)
    \/ TogglePlayback
    \/ \E play \in BOOLEAN : MediaSession(play)
    \/ AudioError
    \/ \E proxyThen, blockedHttp \in BOOLEAN : PlayRejected(proxyThen, blockedHttp)
    \/ handleRetryWithProxy
    \/ PollTick
    \/ \E k \in 1..Len(syncs) : \E outcome \in SyncOutcomes(syncs[k]) :
          SyncDone(k, outcome)
    \/ TimerTick

PlayerSpec == PlayerInit /\ [][PlayerNext]_vars

----------------------------------------------------------------------------
\* RadioProvider: the station list (main.jsx 110-141) and the country list
\* (main.jsx 195-220, metadataFetcher.js 171-223).  A country code and a name
\* are strings of code units.

MaxRequests == 3   \* loadStations calls awaiting their response at once

\* String.prototype.toLowerCase on ASCII
ToLowerCase(s) == [i \in 1..Len(s) |-> IF s[i] \in 65..90 THEN s[i] + 32 ELSE s[i]]

CodeIN == <<73, 78>>       \* "IN"
CodeIn == <<105, 110>>     \* "in"
CodeUs == <<117, 115>>     \* "us"
CountryCodes == {CodeIN, CodeIn, CodeUs}

Voted(k, n) == [stationuuid |-> k, votes |-> Num(n)]
Unvoted(k) == [stationuuid |-> k, votes |-> Undefined]

\* What the Radio Browser API holds: the stations of a country, and the top
\* stations (null).
ServerStations(country) ==
    IF country = Null THEN <<Voted(1, 9), Voted(2, 30), Voted(3, 9)>>
    ELSE IF country = Str(CodeIn) THEN <<Voted(4, 2), Unvoted(5), Voted(6, 7)>>
    ELSE IF country = Str(CodeUs) THEN <<Unvoted(7), Voted(8, 1)>>
    ELSE <<>>

\* fetchStationsByCountry and fetchTopStations: the list, or [] on any failure.
StationAnswers(country) == {ServerStations(country), <<>>}

\* station.votes || 0
VotesOf(station) == IF Truthy(station.votes) THEN station.votes.v ELSE 0

\* data.sort((a, b) => (b.votes || 0) - (a.votes || 0)): descending, stable.
RECURSIVE SortByVotes(_)
SortByVotes(data) ==
    IF data = <<>> THEN <<>>
    ELSE LET rest == SortByVotes(Tail(data))
             ahead == SelectSeq(rest, LAMBDA s : VotesOf(s) > VotesOf(Head(data)))
             behind == SelectSeq(rest, LAMBDA s : VotesOf(s) <= VotesOf(Head(data)))
         IN  ahead \o <<Head(data)>> \o behind

\* On mount the loadStations effect has run once, for the top stations.
LoadInit ==
    /\ CoreOff
    /\ PlayOff /\ CountriesOff /\ PlayerOff /\ HistOff
    /\ selectedCountry = Null
    /\ stations = <<>>
    /\ isLoading = TRUE
    /\ requests = <<Null>>

\* selectCountry, and the loadStations effect up to its await when the
\* selection has changed.
SelectCountry(code) ==
    LET countryCode == Str(ToLowerCase(code))
    IN  /\ selectedCountry' = countryCode
        /\ IF countryCode # selectedCountry
           THEN /\ Len(requests) < MaxRequests
                /\ isLoading' = TRUE
                /\ requests' = Append(requests, countryCode)
           ELSE UNCHANGED <<isLoading, requests>>
        /\ UNCHANGED <<stations, playVars, countryVars, playerVars, hist, coreVars>>

\* loadStations from its await on: the k-th call in flight gets its answer.
LoadDone(k, data) ==
    /\ k \in 1..Len(requests)
    /\ data \in StationAnswers(requests[k])
    /\ stations' = SortByVotes(data)
    /\ isLoading' = FALSE
    /\ requests' = RemoveAt(requests, k)
    /\ UNCHANGED <<selectedCountry, playVars, countryVars, playerVars, hist, coreVars>>

LoadNext ==
    \/ \E code \in CountryCodes : SelectCountry(code)
    \/ \E k \in 1..Len(requests) : \E data \in StationAnswers(requests[k]) : LoadDone(k, data)

LoadSpec == LoadInit /\ [][LoadNext]_vars

TWENTY_FOUR_HOURS == 24 * 60 * 60 * 1000

\* Number.prototype.toString for an integer that is not negative
RECURSIVE ToDigits(_)
ToDigits(n) == IF n < 10 THEN <<48 + n>> ELSE Append(ToDigits(n \div 10), 48 + (n % 10))

NaN == [t |-> "nan"]

\* The digits a string starts with, as a number read from the left.
RECURSIVE LeadingNumber(_, _)
LeadingNumber(s, acc) ==
    IF s = <<>> \/ Head(s) \notin 48..57 THEN acc
    ELSE LeadingNumber(Tail(s), 10 * acc + (Head(s) - 48))

\* parseInt of a string without sign or white space
ParseInt(s) ==
    IF s = <<>> \/ Head(s) \notin 48..57 THEN NaN ELSE Num(LeadingNumber(s, 0))

\* localStorage keeps strings: JSON.stringify of a country list, and
\* JSON.parse of what JSON.stringify wrote.
Stringify(list) == [t |-> "json", v |-> list]
Parse(item) == item.v

\* localStorage.getItem: null for a key that was never set
NoItem == Null
ItemTruthy(item) == item # NoItem /\ (item.t = "str" => item.v # <<>>)

\* A cache that counts as fresh up to and including 24 hours.
FreshUpTo(age) == age.t = "num" /\ age.v <= TWENTY_FOUR_HOURS

\* (now - parseInt(cachedTime)) < TWENTY_FOUR_HOURS; false for NaN
IsFresh(age) == age.t = "num" /\ age.v < TWENTY_FOUR_HOURS

\* now - parseInt(cachedTime)
AgeOf(time, cachedTime) ==
    LET parsed == ParseInt(cachedTime.v)
    IN  IF parsed = NaN THEN NaN ELSE Num(time - parsed.v)

Raw(iso, name, count) == [iso_3166_1 |-> Str(iso), name |-> Str(name), stationcount |-> Num(count)]
CountryOf(c) == [code |-> Str(ToLowerCase(c.iso_3166_1.v)), name |-> c.name, count |-> c.stationcount]

\* a.name.localeCompare(b.name) for names of one lower-case letter
RECURSIVE SortByName(_)
SortByName(list) ==
    IF list = <<>> THEN <<>>
    ELSE LET rest == SortByName(Tail(list))
             ahead == SelectSeq(rest, LAMBDA c : c.name.v[1] < Head(list).name.v[1])
             behind == SelectSeq(rest, LAMBDA c : c.name.v[1] >= Head(list).name.v[1])
         IN  ahead \o <<Head(list)>> \o behind

MapSeq(list, Op(_)) == [i \in 1..Len(list) |-> Op(list[i])]

\* The answers GET /countries can get: none, a status that is not ok, a body
\* that is no JSON, and lists with and without country codes.
CountryAnswers ==
    {NetworkError, Http(503, Undefined), Http(200, Throw),
     Http(200, Arr(<<>>)),
     Http(200, Arr(<<Raw(<<>>, <<120>>, 4)>>)),
     Http(200, Arr(<<Raw(<<85, 83>>, <<117>>, 7), Raw(<<>>, <<120>>, 4), Raw(CodeIN, <<105>>, 9)>>)),
     Http(200, Arr(<<Raw(<<68, 69>>, <<103>>, 5)>>))}

fetchAvailableCountries(resp) ==
    IF resp = NetworkError THEN <<>>
    ELSE IF ~ResponseOk(resp) THEN <<>>
    ELSE IF IsThrow(resp.body) THEN <<>>
    ELSE SortByName(MapSeq(SelectSeq(resp.body.v, LAMBDA c : Truthy(c.iso_3166_1)), CountryOf))

\* The country lists a session can have cached.
CachedIndia == <<[code |-> Str(CodeIn), name |-> Str(<<105>>), count |-> Num(9)]>>
CachedLists == {CachedIndia, fetchAvailableCountries(Http(200, Arr(<<Raw(<<68, 69>>, <<103>>, 5)>>)))}

Hour == 60 * 60 * 1000
CacheAges ==
    {0, 1, Hour, 23 * Hour, TWENTY_FOUR_HOURS - 1, TWENTY_FOUR_HOURS, TWENTY_FOUR_HOURS + 1,
     25 * Hour, 48 * Hour}
NowValues == {10 * TWENTY_FOUR_HOURS, 10 * TWENTY_FOUR_HOURS + 12345}

\* Before the mount effect: localStorage is empty, or holds the list and the
\* timestamp an earlier session wrote.
CountriesInit ==
    /\ CoreOff
    /\ PlayOff /\ LoadOff /\ PlayerOff
    /\ allCountries = <<>>
    /\ isCountriesLoading = FALSE
    /\ cpc = "unmounted"
    /\ now \in NowValues
    /\ \/ /\ storage = [data |-> NoItem, time |-> NoItem]
          /\ hist = [NoHistory EXCEPT !.cache0 = storage]
       \/ \E list \in CachedLists, age \in CacheAges :
             /\ storage = [data |-> Stringify(list), time |-> Str(ToDigits(now - age))]
             /\ hist = [NoHistory EXCEPT !.cache0 = storage, !.age0 = Num(age)]

\* loadCountries up to its return or its await.
MountCountries ==
    /\ cpc = "unmounted"
    /\ LET cachedData == storage.data
           cachedTime == storage.time
       IN  IF ItemTruthy(cachedData) /\ ItemTruthy(cachedTime) /\ IsFresh(AgeOf(now, cachedTime))
           THEN /\ allCountries' = Parse(cachedData)
                /\ cpc' = "cached"
                /\ UNCHANGED <<isCountriesLoading, hist>>
           ELSE /\ isCountriesLoading' = TRUE
                /\ cpc' = "awaiting"
                /\ hist' = [hist EXCEPT !.fetches = @ + 1]
                /\ UNCHANGED allCountries
    /\ UNCHANGED <<storage, now, playVars, loadVars, playerVars, coreVars>>

\* loadCountries from its await on.
CountriesDone(resp) ==
    /\ cpc = "awaiting"
    /\ LET countries == fetchAvailableCountries(resp)
       IN  /\ IF Len(countries) > 0
              THEN /\ allCountries' = countries
                   /\ storage' = [data |-> Stringify(countries), time |-> Str(ToDigits(now))]
              ELSE UNCHANGED <<allCountries, storage>>
           /\ hist' = [hist EXCEPT !.result = Arr(countries)]
    /\ isCountriesLoading' = FALSE
    /\ cpc' = "done"
    /\ UNCHANGED <<now, playVars, loadVars, playerVars, coreVars>>

CountriesNext ==
    \/ MountCountries
    \/ \E resp \in CountryAnswers : CountriesDone(resp)

CountriesSpec == CountriesInit /\ [][CountriesNext]_vars

----------------------------------------------------------------------------
\* Properties of fetchLiveMetadata, checked under Spec.

\* The strategies whose probes settled with content (a non-empty string).
Having == {i \in StrategyIds : HasContent(presult[i])}

\* The call was made with a stream URL and has returned.
ReturnedFromProbes == pc = "returned" /\ ~IsMissing(streamUrl)

\* C1: whatever the order in which the seven probes settled, the call returns
\* the value of the earliest strategy, in launch order, whose probe produced a
\* value (a non-empty string), and null when none did.
C1_LaunchOrderDecides ==
    ReturnedFromProbes =>
        ret = IF Having = {} THEN Null ELSE presult[SetMin(Having)].value

\* C1 witness: the call returned the value of the third strategy although the
\* fifth, with another value, settled with content before it.
C1_Witness ==
    /\ ReturnedFromProbes
    /\ SetMin(Having \cup {3}) = 3 /\ 3 \in Having /\ 5 \in Having
    /\ firstContent = 5
    /\ presult[5].value # presult[3].value
    /\ ret = presult[3].value

\* ShoutcastV1 > ShoutcastV2 > IcecastJSON > IcecastRaw
TypeRank(type) ==
    CASE type = "ShoutcastV1" -> 1
      [] type = "ShoutcastV2" -> 2
      [] type = "IcecastJSON" -> 3
      [] type = "IcecastRaw" -> 4

\* C2 as claimed: when two probes succeed, the call returns the value of the
\* one whose type is earlier in the type priority, whichever candidate URL
\* each was run against.
C2_TypePriorityAcrossCandidates ==
    ReturnedFromProbes =>
        \A i, j \in StrategyIds :
            (/\ Having = {i, j}
             /\ TypeRank(Strategies[i].type) < TypeRank(Strategies[j].type))
                => ret = presult[i].value

\* C2 as amended: when two probes succeed, the call returns the value of the
\* one that is earlier in the launch order, whichever settled first: a probe
\* against the derived base wins over every probe against the raw URL, and
\* the type priority decides between two probes against the same candidate.
C2_LaunchOrderOfTwo ==
    ReturnedFromProbes =>
        \A i, j \in StrategyIds :
            (/\ Having = {i, j}
             /\ \/ Strategies[i].on = "base" /\ Strategies[j].on = "raw"
                \/ /\ Strategies[i].on = Strategies[j].on
                   /\ TypeRank(Strategies[i].type) < TypeRank(Strategies[j].type))
                => ret = presult[i].value

\* C2 witness: IcecastRaw against the base and ShoutcastV1 against the raw URL
\* succeeded with different values, ShoutcastV1 first; the call returned
\* IcecastRaw's.
C2_Witness ==
    /\ ReturnedFromProbes
    /\ \E i, j \in StrategyIds :
          /\ Having = {i, j}
          /\ Strategies[i] = [type |-> "IcecastRaw", on |-> "base"]
          /\ Strategies[j] = [type |-> "ShoutcastV1", on |-> "raw"]
          /\ firstContent = j
          /\ presult[i].value # presult[j].value
          /\ ret = presult[i].value

\* C3: every probe is started before the call waits, and the call does not
\* return while one of its probes is pending; so a probe that never settles
\* keeps it from returning.
C3_WaitsForAll ==
    /\ pc = "awaiting" => \A i \in StrategyIds : presult[i] # NotStarted
    /\ ReturnedFromProbes => \A i \in StrategyIds : IsSettled(presult[i])

\* C3 witness: the first strategy's probe has succeeded and the call still
\* waits for another probe.
C3_Witness ==
    /\ pc = "awaiting"
    /\ HasContent(presult[1])
    /\ \E i \in StrategyIds : presult[i] = Pending

\* C4: for an undefined, null or empty stream URL the call returns null, the
\* base is not derived and no probe is started (no request is issued).
C4_MissingUrlNoRequest ==
    streamUrl \in {Undefined, Null, Str(<<>>)} =>
        /\ base = Undefined
        /\ \A i \in StrategyIds : preq[i] = Undefined /\ presult[i] = NotStarted
        /\ pc # "idle" => pc = "returned" /\ ret = Null

\* C4 witness: the call with the empty string has returned.
C4_Witness == pc = "returned" /\ streamUrl = Str(<<>>) /\ ret = Null

\* C5 as claimed: the call never rejects, whatever its input.
C5_NeverRejects == pc # "rejected"

\* C7: when the probe of a strategy succeeds and the probes of all strategies
\* before it fail, the call returns that probe's value, whatever the later
\* probes did.
C7_FirstSuccessReturned ==
    ReturnedFromProbes =>
        \A k \in StrategyIds :
            (HasContent(presult[k]) /\ \A j \in 1..(k - 1) : ~HasContent(presult[j]))
                => ret = presult[k].value

\* C7 witness: IcecastJSON against the base is the only probe that succeeded,
\* and its value was returned.
C7_Witness ==
    /\ ReturnedFromProbes
    /\ Having = {3}
    /\ Strategies[3].type = "IcecastJSON"
    /\ ret = presult[3].value

\* s holds no '<' that a '>' follows.
NoTag(s) == ~\E i, j \in 1..Len(s) : i < j /\ s[i] = LT /\ s[j] = GT

\* clean("<b>Song</b> Name") yields "Song Name"
SongNameExample ==
    cleanMetadata(Str(TitleSong)) = Str(<<83, 111, 110, 103, 32, 78, 97, 109, 101>>)

\* C8: a value the call returns that is not null is a string of at most 100
\* code units with no tag and no control character; and the sanitizer maps
\* <b>Song</b> Name to Song Name.
C8_ReturnedIsSanitized ==
    /\ (pc = "returned" /\ ret # Null) =>
          /\ IsStr(ret)
          /\ Len(ret.v) <= 100
          /\ NoTag(ret.v)
          /\ \A i \in 1..Len(ret.v) : ~IsControl(ret.v[i])
    /\ SongNameExample

\* C8 witness: the call returned the long title, cut to 100 code units.
C8_Witness == pc = "returned" /\ IsStr(ret) /\ Len(ret.v) = 100

\* The probe settled with the empty string.
SettledEmpty(r) == r.status = "fulfilled" /\ r.value = Str(<<>>)

\* The probe settled with a string that is not empty.
SettledTitle(r) == r.status = "fulfilled" /\ IsStr(r.value) /\ r.value.v # <<>>

\* A 7.html body with an empty title field, and one whose title is <b></b>,
\* make the ShoutcastV1 probe return the empty string.
EmptyTitleExamples ==
    /\ fetchShoutcastV1(Http(200, Str(SevenHtml(<<>>)))) = AsyncResult(Str(<<>>))
    /\ fetchShoutcastV1(Http(200, Str(SevenHtml(<<60, 98, 62, 60, 47, 98, 62>>))))
          = AsyncResult(Str(<<>>))

\* C23: a call that has returned has returned null or a string that is not
\* empty; a probe that settled with the empty string counts as absent: the
\* call returns the value of the first strategy, in launch order, whose probe
\* settled with a string that is not empty, and null when there is none.
C23_EmptyCountsAsAbsent ==
    /\ pc = "returned" =>
          /\ ret = Null \/ (IsStr(ret) /\ ret.v # <<>>)
          /\ ~IsMissing(streamUrl) =>
                LET titled == {i \in StrategyIds : SettledTitle(presult[i])}
                IN  ret = IF titled = {} THEN Null ELSE presult[SetMin(titled)].value
    /\ EmptyTitleExamples

\* C23 witness: ShoutcastV1 against the base settled with the empty string,
\* ShoutcastV2 with a title, and the call returned that title.
C23_Witness ==
    /\ ReturnedFromProbes
    /\ SettledEmpty(presult[1])
    /\ SettledTitle(presult[2])
    /\ ret = presult[2].value

----------------------------------------------------------------------------
\* Properties of getBaseUrl and of the probe set, checked under LaunchSpec.

\* The parts of the stream URL of the call.
CallParts == CHOOSE p \in UrlParts : Str(Compose(p)) = streamUrl

\* The origin a URL parser gives the URL of these parts: the scheme in lower
\* case, //, the host in lower case, and the port unless it is the scheme's
\* default (80 for http).
ExpectedOrigin(p) ==
    LET scheme == IF p.scheme = SchemeHttpUpper THEN SchemeHttp ELSE p.scheme
        host == IF p.authority = HostUpperPort80
                THEN (IF scheme = SchemeHttp THEN HostPlain ELSE HostPort80)
                ELSE p.authority
    IN  scheme \o <<47, 47>> \o host

\* The path holds s, t, r, e, a, m in a row, each in either case.
ContainsStream(path) ==
    \E i \in 1..(Len(path) - 5) :
        /\ path[i] \in {115, 83}
        /\ path[i + 1] \in {116, 84}
        /\ path[i + 2] \in {114, 82}
        /\ path[i + 3] \in {101, 69}
        /\ path[i + 4] \in {97, 65}
        /\ path[i + 5] \in {109, 77}

\* The path is empty, /, /; or holds "stream".
RootRulePath(path) == path \in {<<>>, <<47>>, <<47, 59>>} \/ ContainsStream(path)

\* http://host.com/9020/stream and http://host.com/9020
Url9020Stream ==
    <<104, 116, 116, 112, 58, 47, 47, 104, 111, 115, 116, 46, 99, 111, 109, 47,
      57, 48, 50, 48, 47, 115, 116, 114, 101, 97, 109>>
Base9020 ==
    <<104, 116, 116, 112, 58, 47, 47, 104, 111, 115, 116, 46, 99, 111, 109, 47,
      57, 48, 50, 48>>

\* C12 as claimed: getBaseUrl("http://host.com/9020/stream") is
\* "http://host.com/9020", and for every URL that parses and whose path has
\* more than one segment that is not empty the result is the origin, '/' and
\* the first segment.
C12_KeepsMountPoint ==
    pc # "idle" =>
        /\ streamUrl = Str(Url9020Stream) => base = Str(Base9020)
        /\ (CallParts.kind # "schemeless" /\ Len(CallParts.segments) > 1) =>
              base = Str(ExpectedOrigin(CallParts) \o <<47>> \o CallParts.segments[1])

\* http://host.com
OriginHostCom == <<104, 116, 116, 112, 58, 47, 47, 104, 111, 115, 116, 46, 99,
                   111, 109>>

\* getBaseUrl of http://host.com/, http://host.com/; and
\* http://host.com/livestream
RootExamples ==
    /\ getBaseUrl(Str(OriginHostCom \o <<47>>)) = Str(OriginHostCom)
    /\ getBaseUrl(Str(OriginHostCom \o <<47, 59>>)) = Str(OriginHostCom)
    /\ getBaseUrl(Str(OriginHostCom \o <<47, 108, 105, 118, 101, 115, 116, 114,
                                         101, 97, 109>>)) = Str(OriginHostCom)

C14_SegmentsDecide ==
    (pc # "idle" /\ CallParts.kind # "schemeless" /\ ~RootRulePath(CallParts.path)) =>
        LET p == CallParts
        IN  /\ Len(p.segments) = 1 => base = Str(ExpectedOrigin(p))
            /\ Len(p.segments) >= 2 =>
                  base = Str(ExpectedOrigin(p) \o <<47>> \o p.segments[1])
            /\ \A i \in 1..Len(base.v) : base.v[i] # 63
            /\ p.query # <<>> => ~Includes(base.v, Tail(p.query))

\* C14 witness: http://host.com/;/a/b?x=1, with the segments a and b left,
\* gave http://host.com/a
C14_Witness ==
    /\ pc = "awaiting"
    /\ streamUrl = Str(<<104, 116, 116, 112, 58, 47, 47, 104, 111, 115, 116, 46,
                        99, 111, 109, 47, 59, 47, 97, 47, 98, 63, 120, 61, 49>>)
    /\ base = Str(OriginHostCom \o <<47, 97>>)

\* C15: for every stream URL the base is, when the URL parses, the origin of
\* the URL or the origin, '/' and the first segment of its path, and it
\* parses to the scheme and host of the URL; when the URL does not parse, it
\* is the URL cut at its first '?' with one trailing '/' removed.
C15_SameSchemeAndHost ==
    pc # "idle" =>
        LET p == CallParts
            origin == ExpectedOrigin(p)
            cut == ComposeNoQuery(p)
        IN  IF p.kind = "schemeless"
            THEN base = Str(IF cut # <<>> /\ cut[Len(cut)] = 47
                            THEN SubSeq(cut, 1, Len(cut) - 1) ELSE cut)
            ELSE /\ base.v \in {origin} \cup {origin \o <<47>> \o p.segments[i] :
                                                i \in {1} \cap DOMAIN p.segments}
                 /\ LET u == ParseURL(base.v)
                    IN  ~IsThrow(u) /\ u.protocol \o <<47, 47>> \o u.host = origin

\* C15 witness: host.com/live/?x=1, which does not parse, gave host.com/live
C15_Witness ==
    /\ pc = "awaiting"
    /\ streamUrl = Str(<<104, 111, 115, 116, 46, 99, 111, 109, 47, 108, 105,
                         118, 101, 47, 63, 120, 61, 49>>)
    /\ base = Str(<<104, 111, 115, 116, 46, 99, 111, 109, 47, 108, 105, 118, 101>>)

\* How many strategies have requested u.
Requested(u) == Cardinality({i \in DOMAIN preq : preq[i] = u})

\* How many requests of u the probe set of the claim holds: the four probes
\* against the base, and ShoutcastV1, IcecastJSON and IcecastRaw against raw.
Expected(u, baseUrl, raw) ==
    Cardinality({type \in ProbeTypes : RequestUrl(type, baseUrl) = u})
        + Cardinality({type \in ProbeTypes \ {"ShoutcastV2"} : RequestUrl(type, raw) = u})

\* C19: a call with a stream URL that is a string and not empty starts seven
\* probes before it waits: each of the four probes once against
\* getBaseUrl(streamUrl), and ShoutcastV1, IcecastJSON and IcecastRaw once
\* against the stream URL cut at its '?'; no other request is made, none for
\* ShoutcastV2 against the cut stream URL.
C19_SevenProbes ==
    pc # "idle" =>
        LET raw == ComposeNoQuery(CallParts)
        IN  /\ pc = "awaiting"
            /\ base = getBaseUrl(streamUrl)
            /\ Cardinality({i \in DOMAIN presult : presult[i] # NotStarted}) = 7
            /\ \A i \in DOMAIN presult : presult[i] # NotStarted => IsStr(preq[i])
            /\ \A type \in ProbeTypes :
                  /\ Requested(RequestUrl(type, base.v))
                        = Expected(RequestUrl(type, base.v), base.v, raw)
                  /\ Requested(RequestUrl(type, raw))
                        = Expected(RequestUrl(type, raw), base.v, raw)
            /\ base.v # raw => Requested(RequestUrl("ShoutcastV2", raw)) = 0

\* C19 witness: the call with http://host.com:8000/radio/live.mp3?x=1 has
\* started its seven probes, the first for <proxy>http://host.com:8000/radio/7.html
\* and the fifth for <proxy>http://host.com:8000/radio/live.mp3/7.html
C19_Witness ==
    /\ pc = "awaiting"
    /\ streamUrl = Str(UrlMount)
    /\ \A i \in StrategyIds : presult[i] = Pending
    /\ preq[1] = Str(CORS_PROXY \o <<104, 116, 116, 112, 58, 47, 47, 104, 111,
                                     115, 116, 46, 99, 111, 109, 58, 56, 48,
                                     48, 48, 47, 114, 97, 100, 105, 111, 47,
                                     55, 46, 104, 116, 109, 108>>)
    /\ preq[5] = Str(CORS_PROXY \o <<104, 116, 116, 112, 58, 47, 47, 104, 111,
                                     115, 116, 46, 99, 111, 109, 58, 56, 48,
                                     48, 48, 47, 114, 97, 100, 105, 111, 47,
                                     108, 105, 118, 101, 46, 109, 112, 51, 47,
                                     55, 46, 104, 116, 109, 108>>)

----------------------------------------------------------------------------
\* Properties of concurrent calls, checked under PairSpec.

\* What a call with url returns when it runs alone against the servers of w:
\* its probes in turn, then the selection.
AloneTable ==
    [w \in Worlds, url \in PairUrls |->
        LET st == CallStep(url)
        IN  IF st.pc # "awaiting" THEN st.ret
            ELSE SelectResult([i \in StrategyIds |->
                                  OutcomeIn(w, Strategies[i].type, st.req[i])])]

\* C20: a call that has returned while another call was running has returned
\* what it returns alone against the same servers, and two calls with the
\* same stream URL have returned the same value.
C20_CallsIndependent ==
    /\ \A c \in CallIds :
          calls[c].pc = "returned" => calls[c].ret = AloneTable[world, calls[c].url]
    /\ \A c, d \in CallIds :
          (/\ calls[c].pc = "returned" /\ calls[d].pc = "returned"
           /\ calls[c].url = calls[d].url) => calls[c].ret = calls[d].ret

\* C20 witness: two calls for different streams that overlapped have both
\* returned, each a title of its own.
C20_Witness ==
    /\ \A c \in CallIds : calls[c].pc = "returned" /\ calls[c].overlapped
    /\ calls[1].url # calls[2].url
    /\ IsStr(calls[1].ret) /\ IsStr(calls[2].ret)
    /\ calls[1].ret # calls[2].ret

----------------------------------------------------------------------------
\* Properties of the probes, checked under ProbeSpec.

\* What a probe gives on a body that holds `title`: the cleaned title, and
\* null when a JSON field is the empty string.
ExpectedTitle(type, title) ==
    IF title = <<>> /\ type \in {"ShoutcastV2", "IcecastJSON"} THEN Null
    ELSE Str(CleanString(title))

\* C6: a probe never throws, and returns null when the request fails, the
\* status is not 2xx, the body cannot be read or parsed, or the field or the
\* pattern is missing; a probe whose body holds a title with no comma returns
\* that title, cleaned, whatever the other probes of the call got.
C6_ProbesAbsentOnFailure ==
    \A k \in HarnessIds :
        hresult[k] # Pending =>
            /\ hresult[k].status = "fulfilled"
            /\ hresult[k].value = Null \/ IsStr(hresult[k].value)
            /\ hanswer[k].kind \in {"network", "status", "malformed", "missing"}
                  => hresult[k].value = Null
            /\ hanswer[k].kind = "title"
                  => hresult[k].value = ExpectedTitle(htype[k], hanswer[k].title)

\* C6 witness: the ShoutcastV2 probe got malformed JSON and returned null, and
\* the IcecastJSON probe of the same call returned its title.
C6_Witness ==
    /\ htype[1] = "ShoutcastV2" /\ hanswer[1] # Undefined /\ hresult[1] # Pending
    /\ hanswer[1].kind = "malformed" /\ hresult[1].value = Null
    /\ htype[2] = "IcecastJSON" /\ hanswer[2] # Undefined /\ hresult[2] # Pending
    /\ hanswer[2].kind = "title"
    /\ hresult[2].value = Str(<<83, 111, 110, 103, 32, 78, 97, 109, 101>>)

\* v is a field that holds a title: a string that is not empty.
IsTitle(v) == IsStr(v) /\ v.v # <<>>

\* C17: on a 2xx status whose sources are objects, given as a list or as a
\* single object, the IcecastJSON probe returns the cleaned title of the first
\* source, in list order, that has a title, skipping the sources before it
\* that have none; it returns null when no source has a title.
C17_FirstTitledSource ==
    \A k \in HarnessIds :
        (hresult[k] # Pending /\ hanswer[k].kind = "sources") =>
            LET titles == hanswer[k].titles
                titled == {i \in 1..Len(titles) : IsTitle(titles[i])}
            IN  /\ hresult[k].status = "fulfilled"
                /\ hresult[k].value =
                      IF titled = {} THEN Null
                      ELSE Str(CleanString(titles[SetMin(titled)].v))

\* C17 witness: of a list of two sources only the second has a title, and the
\* probe returned it; and a probe returned the title of a single source
\* object.
C17_Witness ==
    /\ \A k \in HarnessIds : hresult[k] # Pending /\ hanswer[k].kind = "sources"
    /\ hanswer[1].titles = <<Undefined, Str(TitleBeta)>> /\ ~hanswer[1].single
    /\ hresult[1].value = Str(TitleBeta)
    /\ hanswer[2].single /\ hresult[2].value = Str(TitleAlpha)

\* C18: the ShoutcastV2 probe returns the cleaned top-level songtitle when
\* the status has one; when it has none, the songtitle of the first element
\* of streams, if streams is a list that is not empty and its first element
\* has one; null otherwise, whatever the later elements of streams hold.
C18_TopThenFirstStream ==
    \A k \in HarnessIds :
        (hresult[k] # Pending /\ hanswer[k].kind = "songtitles") =>
            LET top == hanswer[k].top
                streams == hanswer[k].streams
            IN  /\ hresult[k].status = "fulfilled"
                /\ hresult[k].value =
                      IF IsTitle(top) THEN Str(CleanString(top.v))
                      ELSE IF /\ streams # Undefined
                              /\ Len(streams.v) >= 1
                              /\ IsTitle(streams.v[1])
                      THEN Str(CleanString(streams.v[1].v))
                      ELSE Null

\* C18 witness: one probe got a top-level songtitle and streams with another
\* and returned the top-level one; the other probe got no top-level
\* songtitle and streams whose second element only has one, and returned
\* null.
C18_Witness ==
    /\ \A k \in HarnessIds : hresult[k] # Pending /\ hanswer[k].kind = "songtitles"
    /\ hanswer[1].top = Str(TitleAlpha)
    /\ hanswer[1].streams = Arr(<<Str(TitleBeta)>>)
    /\ hresult[1].value = Str(TitleAlpha)
    /\ hanswer[2].top = Undefined
    /\ hanswer[2].streams = Arr(<<Undefined, Str(TitleBeta)>>)
    /\ hresult[2].value = Null

\* C16 as claimed: on a 2xx body of six comma-separated fields and a title,
\* the ShoutcastV1 probe returns the cleaned text after the sixth comma, also
\* when the title holds commas; on a body with no line of six commas it
\* returns null.
C16_TitleAfterSixthComma ==
    \A k \in HarnessIds :
        (hresult[k] # Pending /\ htype[k] = "ShoutcastV1") =>
            /\ hresult[k].status = "fulfilled"
            /\ hanswer[k].kind \in {"title", "commas"}
                  => hresult[k].value = Str(CleanString(hanswer[k].title))
            /\ hanswer[k].answer = Http(200, Str(FewCommas))
                  => hresult[k].value = Null

----------------------------------------------------------------------------
\* Properties of cleanMetadata, checked under CleanSpec.

\* C9 as claimed: cleaning a cleaned string changes nothing.
C9_Idempotent == cstep = "twice" => recleaned = cleaned

\* C10 as claimed: every input of 250 code units is cleaned to exactly 100.
C10_Exactly100 ==
    (cstep # "in" /\ Len(text.v) = 250) => Len(cleaned.v) = 100

\* s holds no '<', no control character, and no white space at either end.
PlainText(s) ==
    /\ \A i \in 1..Len(s) : s[i] # LT /\ ~IsControl(s[i])
    /\ s # <<>> => ~IsWhiteSpace(s[1]) /\ ~IsWhiteSpace(s[Len(s)])

\* C10 as amended: an input of 250 code units is cleaned to at most 100, and
\* to exactly its first 100 when it holds no '<', no control character and no
\* white space at either end.
C10_TruncatesPlainText ==
    (cstep # "in" /\ Len(text.v) = 250) =>
        /\ Len(cleaned.v) <= 100
        /\ PlainText(text.v) => cleaned.v = SubSeq(text.v, 1, 100)

\* C10 witness: a plain input of 250 code units was cut to 100.
C10_Witness ==
    /\ cstep = "once"
    /\ Len(text.v) = 250
    /\ PlainText(text.v)
    /\ Len(cleaned.v) = 100

\* C11 as claimed, checked under RawSpec: for every value it is handed,
\* cleanMetadata returns a string and does not throw, and it returns the
\* empty string for an absent or empty input.
C11_NoFailureMode ==
    cstep = "once" =>
        /\ IsStr(cleaned)
        /\ text \in {Undefined, Null, Str(<<>>)} => cleaned = Str(<<>>)

----------------------------------------------------------------------------
\* Properties of the recent list, checked under RecentSpec.

Uuids(list) == {list[i].stationuuid : i \in 1..Len(list)}

NoDuplicates(list) ==
    \A i, j \in 1..Len(list) : list[i].stationuuid = list[j].stationuuid => i = j

Reverse(list) == [i \in 1..Len(list) |-> list[Len(list) + 1 - i]]

\* The first entry of every station of a list, in the order of the list.
RECURSIVE FirstEntries(_)
FirstEntries(list) ==
    IF list = <<>> THEN <<>>
    ELSE <<Head(list)>> \o
         FirstEntries(SelectSeq(Tail(list), LAMBDA s : s.stationuuid # Head(list).stationuuid))

\* The stations started in this run, latest first, then those of the list the
\* run began with.
StartOrder == FirstEntries(Reverse(hist.started) \o hist.recent0)

\* C25: after any sequence of playStation calls from a duplicate-free list,
\* recentStations holds at most 15 stations, no stationuuid twice, the most
\* recently started first (a station started again moves to the head and leaves
\* its older place); playStation on the current station leaves the list as it
\* is.
C25_RecentByLastStart ==
    /\ [](/\ Len(recentStations) <= 15
          /\ NoDuplicates(recentStations)
          /\ recentStations = SubSeq(StartOrder, 1, Len(recentStations))
          /\ Len(recentStations) < 15 => Len(recentStations) = Len(StartOrder)
          /\ hist.started # <<>> => recentStations[1] = currentStation)
    /\ [][\A station \in AllStations :
             IsCurrent(station) /\ PlayStation(station) =>
                recentStations' = recentStations /\ isPlaying' # isPlaying]_vars

\* A full list from which Station(15) has fallen off when Station(16) was
\* started, and in which Station(3), started after it, has moved to the head
\* and was then paused.
C25_Witness ==
    /\ hist.recent0 = FullRecent
    /\ hist.started = <<Station(16), Station(3)>>
    /\ Len(recentStations) = 15
    /\ recentStations[1] = Station(3)
    /\ recentStations[2] = Station(16)
    /\ recentStations[3] = Station(1)
    /\ recentStations[4] = Station(2)
    /\ recentStations[5] = Station(4)
    /\ 15 \notin Uuids(recentStations)
    /\ ~isPlaying

----------------------------------------------------------------------------
\* Properties of the favorites, checked under FavSpec.

Others(list, station) == SelectSeq(list, LAMBDA s : s.stationuuid # station.stationuuid)

\* C26: favorites never holds a stationuuid twice; a station is a favorite iff
\* the number of its toggles is odd (even, if it was a favorite at the start);
\* two toggles of the same station in a row give back the membership of every
\* station; a toggle leaves the other stations and their order alone.
C26_ToggleInvolution ==
    /\ NoDuplicates(favorites)
    /\ \A station \in FavStations :
          isStationFavorite(station.stationuuid) <=>
             ((station.stationuuid \in Uuids(hist.fav0)) # (station.stationuuid \in hist.toggled))
    /\ Len(hist.undo) >= 1 =>
          /\ Others(favorites, hist.undo[1].station) = Others(hist.undo[1].before, hist.undo[1].station)
          /\ (hist.undo[1].station.stationuuid \in Uuids(favorites))
                # (hist.undo[1].station.stationuuid \in Uuids(hist.undo[1].before))
    /\ (Len(hist.undo) = 2 /\ hist.undo[1].station = hist.undo[2].station) =>
          Uuids(favorites) = Uuids(hist.undo[2].before)

\* Station(3), a favorite from the start, toggled twice in a row: it is a
\* favorite again, now behind Station(1).
C26_Witness ==
    /\ hist.fav0 = <<Station(3), Station(1)>>
    /\ Len(hist.undo) = 2
    /\ hist.undo[1].station = Station(3)
    /\ hist.undo[2].station = Station(3)
    /\ hist.undo[2].before = <<Station(3), Station(1)>>
    /\ favorites = <<Station(1), Station(3)>>
    /\ hist.toggled = {}

----------------------------------------------------------------------------
\* Properties of the sleep timer, checked under TimerSpec.

\* C27: a tick happens only while a timer is set and playback is on and takes
\* one second off; the tick that finds 1 or less stops playback and clears the
\* timer, which is the n-th tick since a timer of n seconds was set; while
\* playback is paused only the menu changes the timer; the timer is null or an
\* integer from 1 to 3600; "Stop Timer" clears the timer and leaves isPlaying
\* as it is.
C27_SleepTimer ==
    /\ [](sleepTimer = Null \/ (sleepTimer.t = "num" /\ sleepTimer.v \in 1..3600))
    /\ [](sleepTimer # Null =>
             hist.timerSet # Null /\ sleepTimer.v + hist.timerTicks = hist.timerSet.v)
    /\ [][/\ TimerTick =>
                /\ isPlaying /\ sleepTimer # Null
                /\ IF sleepTimer.v <= 1
                   THEN /\ ~isPlaying'
                        /\ sleepTimer' = Null
                        /\ hist'.timerTicks = hist.timerSet.v
                   ELSE /\ isPlaying'
                        /\ sleepTimer' = Num(sleepTimer.v - 1)
          /\ (~isPlaying /\ sleepTimer' # sleepTimer) => hist'.timerTicks = 0
          /\ hist'.timerTicks = hist.timerTicks + 1 => isPlaying
          /\ HandleSetTimer(0) => sleepTimer' = Null /\ isPlaying' = isPlaying]_vars

\* A timer of 15 minutes has run out on its 900th tick and has stopped
\* playback.
C27_Witness ==
    /\ sleepTimer = Null
    /\ ~isPlaying
    /\ currentStation # Null
    /\ hist.timerSet = Num(900)
    /\ hist.timerTicks = 900

\* "Stop Timer" chosen while a station plays.
C27_StopWitness ==
    /\ sleepTimer = Null
    /\ isPlaying
    /\ hist.timerSet = Null
    /\ hist.started # <<>>

----------------------------------------------------------------------------
\* Properties of playback and of the metadata sync, checked under PlayerSpec.

\* C30: isPlaying implies a current station; playStation on another station
\* makes it current and turns playback on, playStation on the current station
\* flips isPlaying and keeps the station; currentStation never goes back to
\* null.
C30_PlayingHasStation ==
    /\ [](isPlaying => currentStation # Null)
    /\ [][/\ \A station \in FewStations :
                PlayStation(station) =>
                   IF currentStation # Null /\ currentStation = station
                   THEN isPlaying' = ~isPlaying /\ currentStation' = currentStation
                   ELSE isPlaying' /\ currentStation' = station
          /\ currentStation # Null => currentStation' # Null]_vars

\* Station(2) was started after Station(1) and then paused by its own card,
\* button or media key.
C30_Witness ==
    /\ currentStation = Station(2)
    /\ ~isPlaying
    /\ hist.started = <<Station(1), Station(2)>>
    /\ error = Null

\* C21: a metadata sync, at its start by the polling interval and at its end
\* with a title, without one or with a failure, changes liveSong and isSyncing
\* only: isPlaying, currentStation, error and useProxy stay as they are, and so
\* does the rest of the provider's state; while it is in flight it changes
\* nothing.
C21_SyncLeavesPlayback ==
    [][(PollTick \/ Len(syncs') < Len(syncs)) =>
          UNCHANGED <<isPlaying, currentStation, error, useProxy,
                      sleepTimer, recentStations, favorites>>]_vars

\* A sync has come back without a title while the station plays on after an
\* error was shown and retried: nothing but the sync flag has moved.
C21_Witness ==
    /\ isPlaying
    /\ currentStation = Station(1)
    /\ liveSong = Null
    /\ ~isSyncing
    /\ syncs = <<>>
    /\ useProxy
    /\ hist.started = <<Station(1)>>

\* C22 as claimed: at most one fetchLiveMetadata call of AudioPlayer is in
\* flight at any time.
C22_NoOverlap == Len(syncs) <= 1

\* C24 as claimed: a title on display was resolved for the current station.
C24_SongOfCurrentStation ==
    liveSong # Null => (currentStation # Null /\ liveSong = SongOf(currentStation))

----------------------------------------------------------------------------
\* Properties of the station list, checked under LoadSpec.

\* C28 as claimed: once no request is in flight the list is the one of the
\* selected country (empty if its request failed), and isLoading is true while
\* a request is in flight.
C28_LatestSelectionWins ==
    /\ requests = <<>> =>
          \/ stations = <<>>
          \/ Uuids(stations) = Uuids(ServerStations(selectedCountry))
    /\ requests # <<>> => isLoading

----------------------------------------------------------------------------
\* Properties of the country list, checked under CountriesSpec.

CachedAtMount == hist.cache0.data # NoItem
FreshAtMount == CachedAtMount /\ hist.age0.v <= 86399999

\* C29: with a cache less than 24 hours old the cached list is shown and no
\* request is made; otherwise exactly one request is made, isCountriesLoading
\* is true until it is over and false after, and the cache and its timestamp
\* are rewritten (with the list and the time of the mount) only for a list
\* that is not empty: a failed or empty fetch leaves cache and allCountries as
\* they were.
C29_CountryCache ==
    /\ cpc = "unmounted" => hist.fetches = 0 /\ allCountries = <<>> /\ ~isCountriesLoading
    /\ (cpc # "unmounted" /\ FreshAtMount) =>
          /\ cpc = "cached"
          /\ hist.fetches = 0
          /\ allCountries = hist.cache0.data.v
          /\ storage = hist.cache0
          /\ ~isCountriesLoading
    /\ (cpc # "unmounted" /\ ~FreshAtMount) =>
          /\ hist.fetches = 1
          /\ cpc \in {"awaiting", "done"}
          /\ cpc = "awaiting" =>
                isCountriesLoading /\ storage = hist.cache0 /\ allCountries = <<>>
          /\ cpc = "done" =>
                /\ ~isCountriesLoading
                /\ IF hist.result.v # <<>>
                   THEN /\ allCountries = hist.result.v
                        /\ storage.data = [t |-> "json", v |-> hist.result.v]
                        /\ ParseInt(storage.time.v) = Num(now)
                   ELSE /\ allCountries = <<>>
                        /\ storage = hist.cache0

\* A cache exactly 24 hours old was replaced by the two countries the request
\* returned, sorted by name.
C29_Witness ==
    /\ cpc = "done"
    /\ hist.age0 = Num(86400000)
    /\ Len(allCountries) = 2
    /\ allCountries[1].code = Str(CodeIn)
    /\ allCountries[2].code = Str(<<117, 115>>)
    /\ storage.data # hist.cache0.data
    /\ storage.time # hist.cache0.time

\* A cache one millisecond younger than 24 hours was used.
C29_CachedWitness ==
    /\ cpc = "cached"
    /\ hist.age0 = Num(86399999)
    /\ allCountries = CachedIndia

\* A stale cache survived a failed request.
C29_StaleWitness ==
    /\ cpc = "done"
    /\ hist.age0 = Num(172800000)
    /\ hist.result = Arr(<<>>)
    /\ storage = hist.cache0

====
